---- MODULE Spec2Model ----
(***************************************************************************)
(* Model of the price / route-selection engine of degenter-api:            *)
(*   - TokensService.ohlcvAdvanced and ohlcvUzigFromUsdc (OHLCV re-bucket, *)
(*     continuity adjustment, gap fill, inversion, meta);                  *)
(*   - pairFee, simulateXYK and pickBySimulation (TokensService and        *)
(*     SwapService carry the same code).                                   *)
(* JavaScript numbers are modelled as exact rationals [num, den] in lowest *)
(* terms; the magnitudes of the model stay far from the range where IEEE   *)
(* rounding or overflow would change a comparison.                         *)
(***************************************************************************)
EXTENDS Integers, Sequences, FiniteSets, TLC

\* ------------------------------------------------------------------------
\* Bounds of the model
\* ------------------------------------------------------------------------
\* ohlcv_1m holds the minutes 0 .. MaxMinute-1 of one pool
MaxMinute == 3
\* open/high/low/close of a stored 1-minute bar range over 1 .. MaxPrice
MaxPrice == 2
\* volume and trade_count of every stored 1-minute bar
SrcVolume == 1

\* ------------------------------------------------------------------------
\* Nullable values: null is the empty sequence, a value v is <<v>>
\* ------------------------------------------------------------------------
None == <<>>

Some(v) == <<v>>

IsSome(o) == o # <<>>

Val(o) == o[1]

\* ------------------------------------------------------------------------
\* Exact arithmetic on JavaScript numbers
\* ------------------------------------------------------------------------
Abs(x) == IF x < 0 THEN -x ELSE x

RECURSIVE Gcd(_, _)
Gcd(a, b) == IF b = 0 THEN a ELSE Gcd(b, a % b)

\* the number n/d (d # 0) in lowest terms with a positive denominator
Rat(n, d) ==
  LET g == Gcd(Abs(n), Abs(d))
      s == IF d < 0 THEN -1 ELSE 1
  IN  [num |-> (s * n) \div g, den |-> (s * d) \div g]

RInt(n) == [num |-> n, den |-> 1]

RZero == RInt(0)

ROne == RInt(1)

\* least common denominator of a and b
Lcd(a, b) == (a.den \div Gcd(a.den, b.den)) * b.den

\* numerator of a over the denominator L (a multiple of a.den)
NumOver(a, L) == a.num * (L \div a.den)

RAdd(a, b) ==
  LET L == Lcd(a, b) IN Rat(NumOver(a, L) + NumOver(b, L), L)

RSub(a, b) ==
  LET L == Lcd(a, b) IN Rat(NumOver(a, L) - NumOver(b, L), L)

\* a * b, cancelling across before multiplying
RMul(a, b) ==
  LET g1 == Gcd(Abs(a.num), b.den)
      g2 == Gcd(Abs(b.num), a.den)
  IN  Rat((a.num \div g1) * (b.num \div g2), (a.den \div g2) * (b.den \div g1))

\* a / b for b # 0
RDiv(a, b) == RMul(a, Rat(b.den, b.num))

\* a/b < c/d for a, c >= 0 and b, d > 0, by continued fractions (no product
\* is formed, so the comparison is exact for every pair the model can hold)
RECURSIVE CfLess(_, _, _, _)
CfLess(a, b, c, d) ==
  LET qa == a \div b
      qc == c \div d
      ra == a % b
      rc == c % d
  IN  IF qa # qc THEN qa < qc
      ELSE IF rc = 0 THEN FALSE
      ELSE IF ra = 0 THEN TRUE
      ELSE CfLess(d, rc, b, ra)

RLt(a, b) ==
  IF a.num < 0 /\ b.num >= 0 THEN TRUE
  ELSE IF a.num >= 0 /\ b.num < 0 THEN FALSE
  ELSE IF a.num >= 0 THEN CfLess(a.num, a.den, b.num, b.den)
  ELSE CfLess(-b.num, b.den, -a.num, a.den)

RLe(a, b) == ~RLt(b, a)

RGt(a, b) == RLt(b, a)

RMax(a, b) == IF RLt(a, b) THEN b ELSE a

RMin(a, b) == IF RLt(b, a) THEN b ELSE a

Max(a, b) == IF a < b THEN b ELSE a

Min(a, b) == IF b < a THEN b ELSE a

\* ------------------------------------------------------------------------
\* Timeframes.  A timeframe string is modelled as its sequence of characters
\* (the empty sequence is the absent or empty string).
\* ------------------------------------------------------------------------
\* seconds of one ohlcv_1m bucket
MinuteSec == 60

\* the literal map of tfToSec
TfMap(tf) ==
  CASE tf = <<"1", "m">> -> Some(60)
    [] tf = <<"5", "m">> -> Some(300)
    [] tf = <<"1", "5", "m">> -> Some(900)
    [] tf = <<"3", "0", "m">> -> Some(1800)
    [] tf = <<"1", "h">> -> Some(3600)
    [] tf = <<"2", "h">> -> Some(7200)
    [] tf = <<"4", "h">> -> Some(14400)
    [] tf = <<"8", "h">> -> Some(28800)
    [] tf = <<"1", "2", "h">> -> Some(43200)
    [] tf = <<"1", "d">> -> Some(86400)
    [] tf = <<"3", "d">> -> Some(259200)
    [] tf = <<"5", "d">> -> Some(432000)
    [] tf = <<"1", "w">> -> Some(604800)
    [] tf = <<"1", "M">> -> Some(2592000)
    [] tf = <<"3", "M">> -> Some(7776000)
    [] OTHER -> None

\* the unit table of tfToSec
TfUnit(u) ==
  CASE u = "m" -> 60
    [] u = "h" -> 3600
    [] u = "d" -> 86400
    [] u = "w" -> 604800
    [] u = "M" -> 2592000

TfUnits == {"m", "h", "d", "w", "M"}

Digits == {"0", "1", "2", "3", "4", "5", "6", "7", "8", "9"}

DigitVal(c) ==
  CASE c = "0" -> 0 [] c = "1" -> 1 [] c = "2" -> 2 [] c = "3" -> 3
    [] c = "4" -> 4 [] c = "5" -> 5 [] c = "6" -> 6 [] c = "7" -> 7
    [] c = "8" -> 8 [] c = "9" -> 9

\* Number(g[1]) of a string of decimal digits
RECURSIVE NumberOfDigits(_)
NumberOfDigits(ds) ==
  IF ds = <<>> THEN 0
  ELSE 10 * NumberOfDigits(SubSeq(ds, 1, Len(ds) - 1)) + DigitVal(ds[Len(ds)])

\* /^(\d+)([mhdwM])$/ matches tf
TfRegexMatches(tf) ==
  /\ Len(tf) >= 2
  /\ \A i \in 1..(Len(tf) - 1) : tf[i] \in Digits
  /\ tf[Len(tf)] \in TfUnits

tfToSec(tf) ==
  IF tf # <<>> /\ IsSome(TfMap(tf)) THEN Val(TfMap(tf))
  ELSE IF ~TfRegexMatches(tf) THEN 60
  ELSE NumberOfDigits(SubSeq(tf, 1, Len(tf) - 1)) * TfUnit(tf[Len(tf)])

\* ------------------------------------------------------------------------
\* State
\* ------------------------------------------------------------------------
VARIABLES
  ohlcv1m,    \* the ohlcv_1m rows of the selected pool: minute -> null or bar
  pc,         \* position of the OHLCV request: "idle", "loop", "done" (returned
              \* after the loop) or "nopool" (returned early, no pool found)
  q,          \* the request being served
  ts,         \* loop variable of the gap-fill loop
  prevClose,  \* previous close carried by the gap-fill loop (null or number)
  out,        \* bars pushed so far by the gap-fill loop
  resp        \* the response returned (null until the request returns)

ohlcvVars == <<ohlcv1m, pc, q, ts, prevClose, out, resp>>

Minutes == 0..(MaxMinute - 1)

Prices == 1..MaxPrice

\* the stored 1-minute bars: low <= open, close <= high
SrcBars ==
  {[open |-> o, high |-> h, low |-> l, close |-> c,
    volume |-> SrcVolume, trade_count |-> SrcVolume] :
      <<o, h, l, c>> \in {x \in Prices \X Prices \X Prices \X Prices :
                            /\ x[3] <= x[1] /\ x[1] <= x[2]
                            /\ x[3] <= x[4] /\ x[4] <= x[2]}}

Fills == {"prev", "zero", "none"}

\* q.tf of the modelled requests: absent, resolved by the map ("1m" by
\* default), and "2m", resolved by the regular expression
TfTokens == {<<>>, <<"2", "m">>}

\* from / to of the modelled requests, in epoch seconds
ReqTimes == {m * MinuteSec : m \in 0..MaxMinute}

NoRequest ==
  [tf |-> <<>>, fill |-> "none", fromSec |-> 0, toSec |-> 0, isUzig |-> FALSE]

\* ------------------------------------------------------------------------
\* The queries of ohlcvAdvanced / ohlcvUzigFromUsdc
\* ------------------------------------------------------------------------
\* const tf = q.tf || '1m'
tfOf(req) == IF req.tf = <<>> THEN <<"1", "m">> ELSE req.tf

stepSec == tfToSec(tfOf(q))

\* start without the floor to a multiple of the step
start_Unaligned == q.fromSec

\* Math.floor(getTime() / 1000 / stepSec) * stepSec
start == (q.fromSec \div stepSec) * stepSec

end == (q.toSec \div stepSec) * stepSec

BucketStart(m) == m * MinuteSec

SetMax(S) == CHOOSE x \in S : \A y \in S : y <= x

SetMin(S) == CHOOSE x \in S : \A y \in S : x <= y

RECURSIVE SumVolume(_)
SumVolume(S) ==
  IF S = {} THEN 0
  ELSE LET m == SetMin(S) IN Val(ohlcv1m[m]).volume + SumVolume(S \ {m})

RECURSIVE SumTrades(_)
SumTrades(S) ==
  IF S = {} THEN 0
  ELSE LET m == SetMin(S) IN Val(ohlcv1m[m]).trade_count + SumTrades(S \ {m})

\* src: bucket_start >= from AND bucket_start < to
src ==
  {m \in Minutes : /\ IsSome(ohlcv1m[m])
                   /\ BucketStart(m) >= q.fromSec
                   /\ BucketStart(m) < q.toSec}

\* tagged: floor(epoch / step) * step
bucket_ts(m) == (BucketStart(m) \div stepSec) * stepSec

\* sums / firsts / lasts joined: the row of bucket t, null when src has no
\* bar in it (bySec.get(t))
bySec(t) ==
  LET tagged == {m \in src : bucket_ts(m) = t}
  IN  IF tagged = {} THEN None
      ELSE Some([sec    |-> t,
                 open   |-> Val(ohlcv1m[SetMin(tagged)]).open,
                 high   |-> SetMax({Val(ohlcv1m[m]).high : m \in tagged}),
                 low    |-> SetMin({Val(ohlcv1m[m]).low : m \in tagged}),
                 close  |-> Val(ohlcv1m[SetMax(tagged)]).close,
                 volume |-> SumVolume(tagged),
                 trades |-> SumTrades(tagged)])

\* SELECT close ... WHERE bucket_start < from ORDER BY bucket_start DESC LIMIT 1
seedPrevClose ==
  LET before == {m \in Minutes : IsSome(ohlcv1m[m]) /\ BucketStart(m) < q.fromSec}
  IN  IF before = {} THEN None ELSE Some(Val(ohlcv1m[SetMax(before)]).close)

\* prevCloseInit seeding the loop under every fill policy
prevCloseInit_AnyFill(fill, seed) == seed

\* let prevClose = (fill === 'prev' && Number.isFinite(seedPrevClose)) ? ... : null
prevCloseInit(fill, seed) ==
  IF fill = "prev" /\ IsSome(seed) THEN seed ELSE None

\* ------------------------------------------------------------------------
\* The gap-fill loop (the same text in ohlcvAdvanced and ohlcvUzigFromUsdc)
\* ------------------------------------------------------------------------
\* loopContinues with < in place of <=: the bucket at end is not visited
loopContinues_Exclusive(t, e) == t < e

\* realBar keeping the raw aggregated open
realBar_RawOpen(t, r, pcl) ==
  [ts_sec |-> t, open |-> r.open, high |-> r.high, low |-> r.low,
   close |-> r.close, volume |-> r.volume, trades |-> r.trades]

\* for (let ts = start; ts <= end; ts += stepSec)
loopContinues(t, e) == t <= e

\* the bar pushed for a bucket that has a row r
realBar(t, r, pcl) ==
  LET openAdj == IF IsSome(pcl) THEN Val(pcl) ELSE r.open
      highAdj == Max(r.high, openAdj)
      lowAdj  == Min(r.low, openAdj)
  IN  [ts_sec |-> t, open |-> openAdj, high |-> highAdj, low |-> lowAdj,
       close |-> r.close, volume |-> r.volume, trades |-> r.trades]

flatBar(t, v) ==
  [ts_sec |-> t, open |-> v, high |-> v, low |-> v, close |-> v,
   volume |-> 0, trades |-> 0]

\* gapFill whose zero branch leaves the previous close alone
gapFill_ZeroKeepsPrev(fill, t, r, pcl) ==
  IF IsSome(r)
    THEN LET base == realBar(t, Val(r), pcl)
         IN  [push |-> <<base>>, prevClose |-> Some(base.close)]
  ELSE IF fill # "none"
    THEN IF fill = "prev" /\ IsSome(pcl)
           THEN [push |-> <<flatBar(t, Val(pcl))>>, prevClose |-> pcl]
         ELSE IF fill = "zero"
           THEN [push |-> <<flatBar(t, 0)>>, prevClose |-> pcl]
         ELSE [push |-> <<>>, prevClose |-> pcl]
  ELSE [push |-> <<>>, prevClose |-> pcl]

\* gapFill without the test of the policy: 'none' fills like 'prev'
gapFill_NoneFills(fill, t, r, pcl) ==
  IF IsSome(r)
    THEN LET base == realBar(t, Val(r), pcl)
         IN  [push |-> <<base>>, prevClose |-> Some(base.close)]
  ELSE IF fill # "zero" /\ IsSome(pcl)
    THEN [push |-> <<flatBar(t, Val(pcl))>>, prevClose |-> pcl]
  ELSE IF fill = "zero"
    THEN [push |-> <<flatBar(t, 0)>>, prevClose |-> Some(0)]
  ELSE [push |-> <<>>, prevClose |-> pcl]

\* one iteration of the loop body: the bars pushed (none or one) and the
\* previous close after it
gapFill(fill, t, r, pcl) ==
  IF IsSome(r)
    THEN LET base == realBar(t, Val(r), pcl)
         IN  [push |-> <<base>>, prevClose |-> Some(base.close)]
  ELSE IF fill # "none"
    THEN IF fill = "prev" /\ IsSome(pcl)
           THEN [push |-> <<flatBar(t, Val(pcl))>>, prevClose |-> pcl]
         ELSE IF fill = "zero"
           THEN [push |-> <<flatBar(t, 0)>>, prevClose |-> Some(0)]
         ELSE [push |-> <<>>, prevClose |-> pcl]
  ELSE [push |-> <<>>, prevClose |-> pcl]

\* ------------------------------------------------------------------------
\* Inversion, market-cap scaling and meta
\* ------------------------------------------------------------------------
\* const invert = (v) => (v > 0 ? 1 / v : 0), on a number of the loop
invert(v) == IF v > 0 THEN Rat(1, v) ELSE RZero

\* outAdj of ohlcvAdvanced
invertBar(b) ==
  [ts_sec |-> b.ts_sec, open |-> invert(b.open), high |-> invert(b.low),
   low |-> invert(b.high), close |-> invert(b.close),
   volume |-> RInt(b.volume), trades |-> b.trades]

plainBar(b) ==
  [ts_sec |-> b.ts_sec, open |-> RInt(b.open), high |-> RInt(b.high),
   low |-> RInt(b.low), close |-> RInt(b.close),
   volume |-> RInt(b.volume), trades |-> b.trades]

isInverted(dominantSide, pairView) == dominantSide = "quote" /\ pairView = "quote"

\* const zigUsdFactor = unit === 'usd' ? (useUsdTable ? 1 : zigUsd) : 1
zigUsdFactor(unit, zigUsd) ==
  LET useUsdTable == unit = "usd"
  IN  IF unit = "usd" THEN (IF useUsdTable THEN ROne ELSE zigUsd) ELSE ROne

\* convert of ohlcvAdvanced
convert(b, mode, circ, factor) ==
  LET k == IF mode = "mcap" /\ IsSome(circ) THEN RInt(Val(circ)) ELSE ROne
  IN  [ts_sec |-> b.ts_sec,
       open   |-> RMul(RMul(b.open, k), factor),
       high   |-> RMul(RMul(b.high, k), factor),
       low    |-> RMul(RMul(b.low, k), factor),
       close  |-> RMul(RMul(b.close, k), factor),
       volume |-> RMul(b.volume, factor),
       trades |-> b.trades]

\* converted of ohlcvUzigFromUsdc
convertUzig(b, mode, circ, unit) ==
  LET open  == invert(b.open)
      close == invert(b.close)
      high  == invert(b.low)
      low   == invert(b.high)
      volume == IF unit = "usd" THEN RMul(RInt(b.volume), close) ELSE RInt(b.volume)
      k == IF mode = "mcap" /\ IsSome(circ) THEN RInt(Val(circ)) ELSE ROne
  IN  [ts_sec |-> b.ts_sec, open |-> RMul(open, k), high |-> RMul(high, k),
       low |-> RMul(low, k), close |-> RMul(close, k),
       volume |-> volume, trades |-> b.trades]

MapSeq(s, Op(_)) == [i \in 1..Len(s) |-> Op(s[i])]

\* meta.prevCloseSeed of ohlcvAdvanced
metaPrevCloseSeed(seed, dominantSide, pairView) ==
  IF IsSome(seed)
    THEN (IF isInverted(dominantSide, pairView)
            THEN Some(invert(Val(seed))) ELSE Some(RInt(Val(seed))))
  ELSE None

\* prevCloseSeed of ohlcvUzigFromUsdc
metaPrevCloseSeedUzig(seed) ==
  IF IsSome(seed) THEN Some(invert(Val(seed))) ELSE None

\* ------------------------------------------------------------------------
\* Requests and operations
\* ------------------------------------------------------------------------
\* circulating supply of the token when the store knows it
CircSupply == 2

Modes == {"price", "mcap"}

Units == {"native", "usd"}

Sides == {"base", "quote"}

\* (mode, circulating supply) of the modelled requests; in price mode the
\* supply is not read, so one value of it is enough
ModeCircs ==
  {<<"price", Some(CircSupply)>>, <<"mcap", Some(CircSupply)>>, <<"mcap", None>>}

\* zig_usd of the latest exchange_rates row
ZigUsdRates == {RInt(2)}

\* the requests of the model: a range [from, to) with from <= to
Requests ==
  {r \in [tf : TfTokens, fill : Fills, fromSec : ReqTimes, toSec : ReqTimes,
          isUzig : BOOLEAN] : r.fromSec <= r.toSec}

OhlcvInit ==
  /\ ohlcv1m \in [Minutes -> {None} \cup {Some(b) : b \in SrcBars}]
  /\ pc = "idle"
  /\ q = NoRequest
  /\ ts = 0
  /\ prevClose = None
  /\ out = <<>>
  /\ resp = None

\* ohlcvAdvanced / ohlcvUzigFromUsdc up to the first test of the loop: the
\* pool is found, the seed and the rows are read, the range is aligned
OhlcvRequest ==
  /\ pc = "idle"
  /\ \E r \in Requests : q' = r
  /\ ohlcv1m' = ohlcv1m
  /\ ts' = start'
  /\ prevClose' = prevCloseInit(q'.fill, seedPrevClose')
  /\ out' = <<>>
  /\ pc' = "loop"
  /\ resp' = resp

\* ohlcvAdvanced when no pool row is found: if (!poolRow?.pool_id) return ...
OhlcvNoPool ==
  /\ pc = "idle"
  /\ \E r \in Requests, mode \in Modes, unit \in Units :
       /\ ~r.isUzig
       /\ q' = r
       /\ resp' = Some([success |-> TRUE, data |-> <<>>,
                        meta |-> [tf |-> tfOf(r), mode |-> mode, unit |-> unit,
                                  fill |-> r.fill, poolId |-> None]])
  /\ pc' = "nopool"
  /\ UNCHANGED <<ohlcv1m, ts, prevClose, out>>

\* ohlcvUzigFromUsdc when no USDC pool is found: if (!poolId) return ...
OhlcvUzigNoPool ==
  /\ pc = "idle"
  /\ \E r \in Requests, mode \in Modes, unit \in Units :
       /\ r.isUzig
       /\ q' = r
       /\ resp' = Some([success |-> TRUE, data |-> <<>>,
                        meta |-> [tf |-> tfOf(r), mode |-> mode, unit |-> unit,
                                  fill |-> r.fill, stepSec |-> stepSec',
                                  alignedFromSec |-> start',
                                  alignedToSecExclusive |-> end' + stepSec',
                                  prevCloseSeed |-> None]])
  /\ pc' = "nopool"
  /\ UNCHANGED <<ohlcv1m, ts, prevClose, out>>

\* one iteration of the gap-fill loop
OhlcvBucket ==
  /\ pc = "loop"
  /\ loopContinues(ts, end)
  /\ LET g == gapFill(q.fill, ts, bySec(ts), prevClose)
     IN  /\ out' = out \o g.push
         /\ prevClose' = g.prevClose
  /\ ts' = ts + stepSec
  /\ UNCHANGED <<ohlcv1m, pc, q, resp>>

\* ohlcvAdvanced after the loop: inversion, convert, meta
OhlcvRespond ==
  /\ pc = "loop"
  /\ ~loopContinues(ts, end)
  /\ ~q.isUzig
  /\ \E dominantSide \in Sides, pairView \in Sides, mc \in ModeCircs,
        unit \in Units, zigUsd \in ZigUsdRates :
       LET mode == mc[1]
           circ == mc[2]
           outAdj(b) == IF isInverted(dominantSide, pairView)
                          THEN invertBar(b) ELSE plainBar(b)
           conv(b) == convert(outAdj(b), mode, circ, zigUsdFactor(unit, zigUsd))
       IN  resp' = Some([success |-> TRUE,
                         data |-> MapSeq(out, conv),
                         meta |-> [tf |-> tfOf(q), mode |-> mode, unit |-> unit,
                                   fill |-> q.fill, stepSec |-> stepSec,
                                   alignedFromSec |-> start,
                                   alignedToSecExclusive |-> end + stepSec,
                                   dominant |-> dominantSide,
                                   pairView |-> pairView,
                                   prevCloseSeed |->
                                     metaPrevCloseSeed(seedPrevClose, dominantSide, pairView)]])
  /\ pc' = "done"
  /\ UNCHANGED <<ohlcv1m, q, ts, prevClose, out>>

\* ohlcvUzigFromUsdc after the loop: inversion, market cap, meta
OhlcvUzigRespond ==
  /\ pc = "loop"
  /\ ~loopContinues(ts, end)
  /\ q.isUzig
  /\ \E mc \in ModeCircs, unit \in Units :
       LET mode == mc[1]
           circ == mc[2]
           conv(b) == convertUzig(b, mode, circ, unit)
       IN  resp' = Some([success |-> TRUE,
                         data |-> MapSeq(out, conv),
                         meta |-> [tf |-> tfOf(q), mode |-> mode, unit |-> unit,
                                   fill |-> q.fill, stepSec |-> stepSec,
                                   alignedFromSec |-> start,
                                   alignedToSecExclusive |-> end + stepSec,
                                   prevCloseSeed |-> metaPrevCloseSeedUzig(seedPrevClose)]])
  /\ pc' = "done"
  /\ UNCHANGED <<ohlcv1m, q, ts, prevClose, out>>

\* ------------------------------------------------------------------------
\* Fee schedule.  A pair_type is modelled as its sequence of characters (the
\* empty sequence is null or the empty string).
\* ------------------------------------------------------------------------
\* String.prototype.toLowerCase on one character
LowerChar(c) ==
  CASE c = "A" -> "a" [] c = "B" -> "b" [] c = "C" -> "c" [] c = "D" -> "d"
    [] c = "E" -> "e" [] c = "F" -> "f" [] c = "G" -> "g" [] c = "H" -> "h"
    [] c = "I" -> "i" [] c = "J" -> "j" [] c = "K" -> "k" [] c = "L" -> "l"
    [] c = "M" -> "m" [] c = "N" -> "n" [] c = "O" -> "o" [] c = "P" -> "p"
    [] c = "Q" -> "q" [] c = "R" -> "r" [] c = "S" -> "s" [] c = "T" -> "t"
    [] c = "U" -> "u" [] c = "V" -> "v" [] c = "W" -> "w" [] c = "X" -> "x"
    [] c = "Y" -> "y" [] c = "Z" -> "z" [] OTHER -> c

toLowerCase(str) == [i \in 1..Len(str) |-> LowerChar(str[i])]

\* /xyk[_-](\d+)/ matches t at position i
XykMatchesAt(t, i) ==
  /\ i + 4 <= Len(t)
  /\ t[i] = "x" /\ t[i + 1] = "y" /\ t[i + 2] = "k"
  /\ t[i + 3] \in {"_", "-"}
  /\ t[i + 4] \in Digits

\* the digits captured by (\d+) from position i on, taken greedily
RECURSIVE DigitRun(_, _)
DigitRun(t, i) ==
  IF i <= Len(t) /\ t[i] \in Digits THEN <<t[i]>> \o DigitRun(t, i + 1) ELSE <<>>

\* pairFee comparing the value as stored, without lower-casing it
pairFee_CaseSensitive(pairType) ==
  IF pairType = <<>> THEN Rat(3, 1000)
  ELSE LET t == pairType
           hits == {i \in 1..Len(t) : XykMatchesAt(t, i)}
       IN  IF t = <<"x", "y", "k">> THEN Rat(1, 10000)
           ELSE IF t = <<"c", "o", "n", "c", "e", "n", "t", "r", "a", "t", "e", "d">>
             THEN Rat(1, 100)
           ELSE IF hits # {}
             THEN Rat(NumberOfDigits(DigitRun(t, SetMin(hits) + 4)), 10000)
           ELSE Rat(3, 1000)

pairFee(pairType) ==
  IF pairType = <<>> THEN Rat(3, 1000)
  ELSE LET t == toLowerCase(pairType)
           hits == {i \in 1..Len(t) : XykMatchesAt(t, i)}
       IN  IF t = <<"x", "y", "k">> THEN Rat(1, 10000)
           ELSE IF t = <<"c", "o", "n", "c", "e", "n", "t", "r", "a", "t", "e", "d">>
             THEN Rat(1, 100)
           ELSE IF hits # {}
             THEN Rat(NumberOfDigits(DigitRun(t, SetMin(hits) + 4)), 10000)
           ELSE Rat(3, 1000)

\* ------------------------------------------------------------------------
\* Constant-product simulation
\* ------------------------------------------------------------------------
\* the floor of Math.max(x, 1e-18).  The integers of the model end below
\* 1e18: the floor is held as 1e-6, which like 1e-18 in the source is below
\* every positive out and price the modelled reserves and amounts produce.
Tiny == Rat(1, 1000000)

\* Math.max(x, 1e-18)
clampTiny(x) == RMax(x, Tiny)

\* simulateXYK with the fee-deducted input left out of the denominators
simulateXYK_FixedDenominator(fromIsZig, amountIn, Rz, Rt, fee) ==
  IF ~(RLt(RZero, Rz) /\ RLt(RZero, Rt)) \/ ~RLt(RZero, amountIn)
    THEN [out |-> RZero, price |-> RZero, impact |-> RZero]
  ELSE
    LET mid == RDiv(Rz, Rt)
        xin == RMul(amountIn, RSub(ROne, fee))
    IN  IF fromIsZig
          THEN LET outToken == RDiv(RMul(xin, Rt), Rz)
                   effZigPerToken == RDiv(amountIn, clampTiny(outToken))
               IN  [out |-> outToken, price |-> effZigPerToken,
                    impact |-> RSub(RDiv(effZigPerToken, mid), ROne)]
          ELSE LET outZig == RDiv(RMul(xin, Rz), Rt)
                   effZigPerToken == RDiv(outZig, amountIn)
               IN  [out |-> outZig, price |-> effZigPerToken,
                    impact |-> RSub(RDiv(mid, clampTiny(effZigPerToken)), ROne)]

\* simulateXYK with the execution price taken on the fee-deducted input
simulateXYK_ImpactOnNetInput(fromIsZig, amountIn, Rz, Rt, fee) ==
  IF ~(RLt(RZero, Rz) /\ RLt(RZero, Rt)) \/ ~RLt(RZero, amountIn)
    THEN [out |-> RZero, price |-> RZero, impact |-> RZero]
  ELSE
    LET mid == RDiv(Rz, Rt)
        xin == RMul(amountIn, RSub(ROne, fee))
    IN  IF fromIsZig
          THEN LET outToken == RDiv(RMul(xin, Rt), RAdd(Rz, xin))
                   effZigPerToken == RDiv(xin, clampTiny(outToken))
               IN  [out |-> outToken, price |-> effZigPerToken,
                    impact |-> RSub(RDiv(effZigPerToken, mid), ROne)]
          ELSE LET outZig == RDiv(RMul(xin, Rz), RAdd(Rt, xin))
                   effZigPerToken == RDiv(outZig, xin)
               IN  [out |-> outZig, price |-> effZigPerToken,
                    impact |-> RSub(RDiv(mid, clampTiny(effZigPerToken)), ROne)]

simulateXYK(fromIsZig, amountIn, Rz, Rt, fee) ==
  IF ~(RGt(Rz, RZero) /\ RGt(Rt, RZero)) \/ ~RGt(amountIn, RZero)
    THEN [out |-> RZero, price |-> RZero, impact |-> RZero]
  ELSE
    LET mid == RDiv(Rz, Rt)
        xin == RMul(amountIn, RSub(ROne, fee))
    IN  IF fromIsZig
          THEN LET outToken == RDiv(RMul(xin, Rt), RAdd(Rz, xin))
                   effZigPerToken == RDiv(amountIn, clampTiny(outToken))
                   impact == IF RGt(mid, RZero)
                               THEN RSub(RDiv(effZigPerToken, mid), ROne)
                               ELSE RZero
               IN  [out |-> outToken, price |-> effZigPerToken, impact |-> impact]
          ELSE LET outZig == RDiv(RMul(xin, Rz), RAdd(Rt, xin))
                   effZigPerToken == RDiv(outZig, amountIn)
                   impact == IF RGt(mid, RZero)
                               THEN RSub(RDiv(mid, clampTiny(effZigPerToken)), ROne)
                               ELSE RZero
               IN  [out |-> outZig, price |-> effZigPerToken, impact |-> impact]

\* ------------------------------------------------------------------------
\* Pools of a token and the choice of the best pool
\* ------------------------------------------------------------------------
\* at most MaxPools pools quote the token against uzig
MaxPools == 2
\* pool_state reserves, in base units, range over 0 .. MaxReserve
MaxReserve == 2
\* the amounts requested range over 0 .. MaxAmount
MaxAmount == 2

VARIABLES
  poolRows,   \* rows of pools / pool_state / tokens joined for the token
  spc,        \* position of pickBySimulation: "idle", "pick" or "done"
  sq,         \* its arguments fromIsZig and amountIn
  pools,      \* the candidates loaded by loadUzigPoolsForToken
  idx,        \* index of the next candidate of the loop
  cand,       \* the candidate built by the last iteration (null before)
  best        \* best candidate so far (null before the first)

swapVars == <<poolRows, spc, sq, pools, idx, cand, best>>

\* pair_type values of the model: null, 'xyk', 'concentrated', 'XYK-5000'
\* and 'xyk_0'
PairTypes ==
  {<<>>,
   <<"x", "y", "k">>,
   <<"c", "o", "n", "c", "e", "n", "t", "r", "a", "t", "e", "d">>,
   <<"X", "Y", "K", "-", "5", "0", "0", "0">>,
   <<"x", "y", "k", "_", "0">>}

\* tokens.exponent of the base and of the quote token: null or 1
Exps == {None, Some(1)}

\* a pool_state row, null when the pool has none (LEFT JOIN)
PoolStates ==
  {None} \cup {Some([reserve_base_base |-> b, reserve_quote_base |-> z]) :
                 b \in 0..MaxReserve, z \in 0..MaxReserve}

PoolRowSet(id) ==
  {[pool_id |-> id, pair_type |-> pt, pool_state |-> ps, base_exp |-> be,
    quote_exp |-> qe] : pt \in PairTypes, ps \in PoolStates,
                        be \in Exps, qe \in Exps}

RECURSIVE Pow10(_)
Pow10(e) == IF e = 0 THEN 1 ELSE 10 * Pow10(e - 1)

\* Number(x || 0) of a nullable number
NumberOr0(x) == IF IsSome(x) THEN Val(x) ELSE 0

\* one row of loadUzigPoolsForToken mapped to a candidate
loadPool(r) ==
  LET res_base_base  == IF IsSome(r.pool_state)
                          THEN Some(Val(r.pool_state).reserve_base_base) ELSE None
      res_quote_base == IF IsSome(r.pool_state)
                          THEN Some(Val(r.pool_state).reserve_quote_base) ELSE None
      Rt == Rat(NumberOr0(res_base_base), Pow10(NumberOr0(r.base_exp)))
      Rz == Rat(NumberOr0(res_quote_base), Pow10(NumberOr0(r.quote_exp)))
  IN  [poolId |-> r.pool_id, pairType |-> r.pair_type,
       tokenReserve |-> Rt, zigReserve |-> Rz]

loadUzigPoolsForToken(rows) == [i \in 1..Len(rows) |-> loadPool(rows[i])]

\* cand of one iteration of pickBySimulation
candidate(p, fromIsZig, amountIn) ==
  LET fee == pairFee(p.pairType)
      hasRes == RGt(p.zigReserve, RZero) /\ RGt(p.tokenReserve, RZero)
      sim == IF hasRes
               THEN Some(simulateXYK(fromIsZig, amountIn, p.zigReserve,
                                     p.tokenReserve, fee))
               ELSE None
      score == IF IsSome(sim) THEN Val(sim).out ELSE RZero
  IN  [pool |-> p, fee |-> fee, sim |-> sim, score |-> score]

\* betterOf with >= in place of >: the last of equal scores wins
betterOf_LastWins(b, c) ==
  IF ~IsSome(b) \/ RLe(Val(b).score, c.score) THEN Some(c) ELSE b

\* if (!best || cand.score > best.score) best = cand
betterOf(b, c) ==
  IF ~IsSome(b) \/ RGt(c.score, Val(b).score) THEN Some(c) ELSE b

Amounts == {RInt(a) : a \in 0..MaxAmount}

NoSwapRequest == [fromIsZig |-> FALSE, amountIn |-> RZero]

\* rows of the store: the same token on the base side of every pool, so one
\* base exponent and one quote exponent
SwapInit ==
  /\ \E n \in 0..MaxPools, be \in Exps, qe \in Exps :
       poolRows \in {rows \in [1..n -> UNION {PoolRowSet(i) : i \in 1..MaxPools}] :
                       \A i \in 1..n : /\ rows[i].pool_id = i
                                       /\ rows[i].base_exp = be
                                       /\ rows[i].quote_exp = qe}
  /\ spc = "idle"
  /\ sq = NoSwapRequest
  /\ pools = <<>>
  /\ idx = 1
  /\ cand = None
  /\ best = None

\* pickBySimulation is entered with the candidates of the token
PickStart ==
  /\ spc = "idle"
  /\ \E fromIsZig \in BOOLEAN, amountIn \in Amounts :
       sq' = [fromIsZig |-> fromIsZig, amountIn |-> amountIn]
  /\ pools' = loadUzigPoolsForToken(poolRows)
  /\ idx' = 1
  /\ best' = None
  /\ cand' = None
  /\ spc' = "pick"
  /\ UNCHANGED poolRows

\* one iteration of for (const p of pools)
PickCandidate ==
  /\ spc = "pick"
  /\ idx <= Len(pools)
  /\ LET c == candidate(pools[idx], sq.fromIsZig, sq.amountIn)
     IN  /\ cand' = Some(c)
         /\ best' = betterOf(best, c)
  /\ idx' = idx + 1
  /\ UNCHANGED <<poolRows, spc, sq, pools>>

\* return best
PickReturn ==
  /\ spc = "pick"
  /\ idx > Len(pools)
  /\ spc' = "done"
  /\ UNCHANGED <<poolRows, sq, pools, idx, cand, best>>

\* ------------------------------------------------------------------------
\* Specifications
\* ------------------------------------------------------------------------
VARIABLES
  db,     \* the rows of the store a handler reads
  call,   \* the handler called and its arguments
  ret     \* what it returned (null before it returns)

apiVars == <<db, call, ret>>

NoCall == [op |-> "none"]

\* no handler is called
ApiIdle ==
  /\ db = <<>>
  /\ call = NoCall
  /\ ret = None

\* State of the real-time services: the token summary publisher and the
\* WebSocket fan-out
VARIABLES
  clock,        \* Date.now(), in milliseconds
  lastSent,     \* TokenSummaryPublisher.lastSent: token id -> time accepted
  pending,      \* handleMessage calls awaiting getOne
  published,    \* messages published on the summary channel, in order
  lastDirty,    \* per token id, the time of the last dirty event received
  faulted,      \* a call to the store has failed
  rooms,        \* startWS rooms: room key -> set of sockets
  socketRooms,  \* startWS socketRooms: socket -> set of room keys
  readyState,   \* ws.readyState of every socket
  sends         \* ws.send calls of the last message fanned out, in order

pubVars == <<clock, lastSent, pending, published, lastDirty, faulted>>

wsVars == <<rooms, socketRooms, readyState, sends>>

rtVars == <<pubVars, wsVars>>

\* const MIN_INTERVAL_MS = Number(process.env.RT_TOKEN_SUMMARY_MIN_MS || 1000)
MIN_INTERVAL_MS == 1000

\* the clock advances in steps of half the interval
TickMs == MIN_INTERVAL_MS \div 2

\* the publisher has received nothing
PubIdle ==
  /\ clock = MIN_INTERVAL_MS
  /\ lastSent = <<>>
  /\ pending = {}
  /\ published = <<>>
  /\ lastDirty = <<>>
  /\ faulted = FALSE

\* no socket is connected
WsIdle ==
  /\ rooms = <<>>
  /\ socketRooms = <<>>
  /\ readyState = <<>>
  /\ sends = <<>>

\* the real-time services are not running
RtIdle == PubIdle /\ WsIdle

vars == <<ohlcvVars, swapVars, apiVars, rtVars>>

\* the state of the OHLCV request when only the swap engine runs
OhlcvIdle ==
  /\ ohlcv1m = [m \in Minutes |-> None]
  /\ pc = "idle"
  /\ q = NoRequest
  /\ ts = 0
  /\ prevClose = None
  /\ out = <<>>
  /\ resp = None

\* the state of the swap engine when only OHLCV requests run
SwapIdle ==
  /\ poolRows = <<>>
  /\ spc = "idle"
  /\ sq = NoSwapRequest
  /\ pools = <<>>
  /\ idx = 1
  /\ cand = None
  /\ best = None

Init == OhlcvInit /\ SwapIdle /\ ApiIdle /\ RtIdle

Next ==
  \/ OhlcvRequest /\ UNCHANGED <<swapVars, apiVars, rtVars>>
  \/ OhlcvNoPool /\ UNCHANGED <<swapVars, apiVars, rtVars>>
  \/ OhlcvUzigNoPool /\ UNCHANGED <<swapVars, apiVars, rtVars>>
  \/ OhlcvBucket /\ UNCHANGED <<swapVars, apiVars, rtVars>>
  \/ OhlcvRespond /\ UNCHANGED <<swapVars, apiVars, rtVars>>
  \/ OhlcvUzigRespond /\ UNCHANGED <<swapVars, apiVars, rtVars>>

\* OHLCV requests over every content of ohlcv_1m
Spec == Init /\ [][Next]_vars

SwapSpecInit == SwapInit /\ OhlcvIdle /\ ApiIdle /\ RtIdle

SwapSpecNext ==
  \/ PickStart /\ UNCHANGED <<ohlcvVars, apiVars, rtVars>>
  \/ PickCandidate /\ UNCHANGED <<ohlcvVars, apiVars, rtVars>>
  \/ PickReturn /\ UNCHANGED <<ohlcvVars, apiVars, rtVars>>

\* the choice of the best pool over every content of the pool tables
SwapSpec == SwapSpecInit /\ [][SwapSpecNext]_vars

\* ------------------------------------------------------------------------
\* Best pool and route (TokensService.getBestPool, SwapService.route)
\* ------------------------------------------------------------------------
\* pool_matrix.tvl_zig of a pool ranges over 0 .. MaxTvl
MaxTvl == 1

\* prices.price_in_zig of the stored pools, and exchange_rates.zig_usd
StoredPrice == 2

\* reserves, fee and amount of the documented route scenario
Scenario == [Rz |-> 10000, Rt |-> 50000, amt |-> 500, fee |-> [num |-> 3, den |-> 1000]]

\* the two tokens of the store, by token_id
TokenIds == <<1, 2>>

TokenA == TokenIds[1]

TokenB == TokenIds[2]

XykType == <<"x", "y", "k">>

\* a row of loadUzigPoolsForToken: the joined pools / prices / pool_state /
\* tokens / pool_matrix columns
RouteRow(id, pt, ps, tvl) ==
  [pool_id |-> id, pair_type |-> pt, pool_state |-> ps,
   base_exp |-> None, quote_exp |-> None,
   price_in_zig |-> Some(StoredPrice), tvl_zig |-> tvl]

ScenarioRow ==
  RouteRow(1, <<>>, Some([reserve_base_base |-> Scenario.Rt,
                          reserve_quote_base |-> Scenario.Rz]), MaxTvl)

\* rows of the first pool of token A
FirstRows ==
  {RouteRow(1, pt, ps, tvl) : pt \in {<<>>, XykType}, ps \in PoolStates,
                              tvl \in 0..MaxTvl}

\* rows of a second pool of token A: one without liquidity, one with
SecondRows ==
  {RouteRow(2, XykType, None, MaxTvl),
   RouteRow(2, XykType, Some([reserve_base_base |-> 1, reserve_quote_base |-> 1]),
            MaxTvl)}

\* rows of the pool of token B
OtherRows == {RouteRow(3, <<>>, ps, MaxTvl) : ps \in PoolStates}

\* the store of the scenario: its pool is the only one
ScenarioDb ==
  [zig_usd |-> Some(StoredPrice),
   rows |-> (TokenA :> <<ScenarioRow>> @@ TokenB :> <<>>)]

\* the store read by getBestPool and route
RouteDbs ==
  {[zig_usd |-> Some(StoredPrice), rows |-> (TokenA :> ra @@ TokenB :> rb)] :
     ra \in {<<>>} \cup {<<r>> : r \in FirstRows}
              \cup {<<r, x>> : r \in FirstRows, x \in SecondRows},
     rb \in {<<>>} \cup {<<r>> : r \in OtherRows}} \cup {ScenarioDb}

\* r.rows[0]?.zig_usd ? Number(r.rows[0].zig_usd) : 0
zigUsd(row) == IF IsSome(row) /\ Val(row) # 0 THEN RInt(Val(row)) ELSE RZero

\* one row mapped to a candidate, with priceInZig and tvlZig
loadPoolPriced(r) ==
  loadPool(r) @@ [priceInZig |-> RInt(NumberOr0(r.price_in_zig)),
                  tvlZig |-> r.tvl_zig]

\* loadUzigPoolsForToken followed by filter(p => p.tvlZig >= minTvlZig)
loadUzigPoolsFiltered(rows, minTvlZig) ==
  SelectSeq([i \in 1..Len(rows) |-> loadPoolPriced(rows[i])],
            LAMBDA p : p.tvlZig >= minTvlZig)

\* the loop of pickBySimulation from candidate i on
RECURSIVE pickFrom(_, _, _, _, _)
pickFrom(ps, i, b, fromIsZig, amountIn) ==
  IF i > Len(ps) THEN b
  ELSE pickFrom(ps, i + 1, betterOf(b, candidate(ps[i], fromIsZig, amountIn)),
                fromIsZig, amountIn)

pickBySimulation(ps, fromIsZig, amountIn) == pickFrom(ps, 1, None, fromIsZig, amountIn)

RECURSIVE SumPriceInZig(_, _)
SumPriceInZig(ps, i) ==
  IF i > Len(ps) THEN RZero ELSE RAdd(ps[i].priceInZig, SumPriceInZig(ps, i + 1))

\* defaultAmount: 100 USD worth of zig, or of the token at the average mid
\* price.  The floors 1e-9 and 1e-12 are held as Tiny: the stored rate and
\* prices of the model are above both.
defaultAmount(side, zUsd, ps) ==
  LET targetUsd == RInt(100)
      zigAmt == RDiv(targetUsd, RMax(zUsd, Tiny))
      avgMid == IF Len(ps) # 0
                  THEN RDiv(SumPriceInZig(ps, 1), RInt(Len(ps))) ELSE ROne
  IN  IF side = "buy" THEN zigAmt ELSE RDiv(zigAmt, RMax(avgMid, Tiny))

\* if (!pick) return null; return { ...pick, amtUsed: amt }
pickWithAmount(amt, pick) ==
  IF ~IsSome(pick) THEN None ELSE Some(Val(pick) @@ [amtUsed |-> amt])

\* const pick = pickBySimulation(pools, side is buy, amt)
bestWithAmount(side, ps, amt) ==
  pickWithAmount(amt, pickBySimulation(ps, side = "buy", amt))

\* if (!pools.length) return null;
\* const amt = Number.isFinite(amountIn) ? Number(amountIn) : defaultAmount(...)
bestAmong(side, ps, amountIn, zUsd) ==
  IF Len(ps) = 0 THEN None
  ELSE bestWithAmount(side, ps, IF IsSome(amountIn) THEN Val(amountIn)
                                ELSE defaultAmount(side, zUsd, ps))

\* bestBuyPool / bestSellPool: null for an empty candidate list, else the
\* pick with amtUsed
bestPool(side, rows, amountIn, minTvlZig, zUsd) ==
  bestAmong(side, loadUzigPoolsFiltered(rows, minTvlZig), amountIn, zUsd)

\* resolveTokenId / resolveRef on the two tokens of the store
TokenRefs == {"a", "b"}

TokenIdOf(ref) == IF ref = "a" THEN TokenA ELSE TokenB

resolveRef(ref) ==
  IF ref = "uzig" THEN Some([type |-> "uzig"])
  ELSE IF ref \in TokenRefs THEN Some([type |-> "token", token_id |-> TokenIdOf(ref)])
  ELSE None

\* data: best ? { ...best, tokenId: tok.token_id } : null
bestPoolData(tokenId, sell) ==
  [success |-> TRUE,
   data |-> IF IsSome(sell) THEN Some(Val(sell) @@ [tokenId |-> tokenId]) ELSE None]

\* getBestPool(idOrDenom, { amt, minBestTvl })
getBestPool(d, idOrDenom, amt, minBestTvl) ==
  IF idOrDenom \notin TokenRefs
    THEN [success |-> FALSE, error |-> "token not found"]
  ELSE bestPoolData(TokenIdOf(idOrDenom),
                    bestPool("sell", d.rows[TokenIdOf(idOrDenom)], amt,
                             IF IsSome(minBestTvl) THEN Val(minBestTvl) ELSE 0,
                             zigUsd(d.zig_usd)))

\* makePairBlock reporting the mid price as the executed price
makePairBlock_MidAsExec(side, pick, zUsd) ==
  LET sim == pick.sim
      price_native_mid == pick.pool.priceInZig
      price_native_exec == IF IsSome(sim) THEN Some(price_native_mid) ELSE None
  IN  [poolId |-> pick.pool.poolId,
       pairType |-> pick.pool.pairType,
       side |-> side,
       price_native_exec |-> price_native_exec,
       price_usd_exec |-> IF IsSome(price_native_exec)
                            THEN Some(RMul(Val(price_native_exec), zUsd)) ELSE None,
       price_native_mid |-> price_native_mid,
       price_usd_mid |-> RMul(price_native_mid, zUsd),
       amount_in |-> Some(pick.amtUsed),
       amount_out |-> IF IsSome(sim) THEN Some(Val(sim).out) ELSE None,
       price_impact |-> IF IsSome(sim) THEN Some(Val(sim).impact) ELSE None,
       fee |-> pick.fee]

\* makePairBlock; a null sim gives null exec price, amount_out and impact
makePairBlock(side, pick, zUsd) ==
  LET sim == pick.sim
      price_native_exec == IF IsSome(sim) THEN Some(Val(sim).price) ELSE None
      price_native_mid == pick.pool.priceInZig
  IN  [poolId |-> pick.pool.poolId,
       pairType |-> pick.pool.pairType,
       side |-> side,
       price_native_exec |-> price_native_exec,
       price_usd_exec |-> IF IsSome(price_native_exec)
                            THEN Some(RMul(Val(price_native_exec), zUsd)) ELSE None,
       price_native_mid |-> price_native_mid,
       price_usd_mid |-> RMul(price_native_mid, zUsd),
       amount_in |-> Some(pick.amtUsed),
       amount_out |-> IF IsSome(sim) THEN Some(Val(sim).out) ELSE None,
       price_impact |-> IF IsSome(sim) THEN Some(Val(sim).impact) ELSE None,
       fee |-> pick.fee]

RouteError(msg) == [success |-> FALSE, error |-> msg]

RouteData(pairs, price_native, price_usd, source) ==
  [success |-> TRUE,
   data |-> [pairs |-> pairs, price_native |-> price_native,
             price_usd |-> price_usd, source |-> source]]

\* route from uzig to a token: the response for the buy block
routeBuyBlock(pairBlock) ==
  RouteData(<<pairBlock>>, pairBlock.price_native_exec,
            pairBlock.price_usd_exec, "direct_uzig")

\* route from uzig to a token, for the result of bestBuyPool
routeBuy(buy, zUsd) ==
  IF ~IsSome(buy) THEN RouteData(<<>>, None, None, "direct_uzig")
  ELSE routeBuyBlock(makePairBlock("buy", Val(buy), zUsd))

\* route from a token to uzig: the response for the sell block
routeSellBlock(pairBlock, zUsd) ==
  LET price_native == pairBlock.price_native_exec
  IN  RouteData(<<pairBlock>>, price_native,
                IF IsSome(price_native)
                  THEN Some(RMul(Val(price_native), zUsd)) ELSE None,
                "direct_uzig")

\* route from a token to uzig, for the result of bestSellPool
routeSell(sell, zUsd) ==
  IF ~IsSome(sell) THEN RouteData(<<>>, None, None, "direct_uzig")
  ELSE routeSellBlock(makePairBlock("sell", Val(sell), zUsd), zUsd)

\* const zigOut = sellA?.sim ? sellA.sim.out : undefined
zigOutOf(sellA) ==
  IF IsSome(sellA) /\ IsSome(Val(sellA).sim)
    THEN Some(Val(Val(sellA).sim).out) ELSE None

\* route from a token to a token: the response for the two legs
routeViaLegs(sellA, buyB, zUsd) ==
  IF ~IsSome(sellA) \/ ~IsSome(buyB)
    THEN RouteData(<<>>, None, None, "via_uzig")
  ELSE LET sellBlock == makePairBlock("sell", Val(sellA), zUsd)
           buyBlock == makePairBlock("buy", Val(buyB), zUsd)
           bPerA == RDiv(Val(sellA).pool.priceInZig,
                         RMax(Val(buyB).pool.priceInZig, Tiny))
       IN  RouteData(<<sellBlock, buyBlock>>, Some(bPerA), None, "via_uzig")

\* route from a token to a token, for the result of bestSellPool on the
\* first: the second leg buys with the uzig the first leg gives
routeVia(sellA, rowsB, minTvlZig, zUsd) ==
  routeViaLegs(sellA, bestPool("buy", rowsB, zigOutOf(sellA), minTvlZig, zUsd), zUsd)

\* route once from, to, amt, minTvlZig and zigUsd are known
routeResolved(d, from, to, amt, minTvlZig, zUsd) ==
  IF ~IsSome(from) THEN RouteError("from token not found")
  ELSE IF ~IsSome(to) THEN RouteError("to token not found")
  ELSE IF Val(from).type = "uzig" /\ Val(to).type = "token" THEN
    routeBuy(bestPool("buy", d.rows[Val(to).token_id], amt, minTvlZig, zUsd), zUsd)
  ELSE IF Val(from).type = "token" /\ Val(to).type = "uzig" THEN
    routeSell(bestPool("sell", d.rows[Val(from).token_id], amt, minTvlZig, zUsd), zUsd)
  ELSE IF Val(from).type = "token" /\ Val(to).type = "token" THEN
    routeVia(bestPool("sell", d.rows[Val(from).token_id], amt, minTvlZig, zUsd),
             d.rows[Val(to).token_id], minTvlZig, zUsd)
  ELSE RouteError("unsupported route (check from/to)")

\* SwapService.route(q) with q.from, q.to (null when absent), q.amt and
\* q.minTvl (null when absent or falsy)
route(d, fromRef, toRef, qAmt, qMinTvl) ==
  IF ~IsSome(fromRef) \/ ~IsSome(toRef) THEN RouteError("missing from/to")
  ELSE routeResolved(d, resolveRef(Val(fromRef)), resolveRef(Val(toRef)),
                     IF IsSome(qAmt) /\ Val(qAmt) # RZero THEN qAmt ELSE None,
                     IF IsSome(qMinTvl) THEN Val(qMinTvl) ELSE 0,
                     zigUsd(d.zig_usd))

\* the arguments of the modelled calls
RouteRefs == {None, Some("uzig"), Some("a"), Some("b"), Some("nope")}

\* q.amt: absent, or 1 .. MaxAmount; the scenario pool is called with the
\* amount of the scenario and from the native currency (the fractions of a
\* two-leg route over its reserves leave the integers of the model)
RouteAmts(d) ==
  IF d = ScenarioDb
    THEN {None, Some(RInt(Scenario.amt))}
    ELSE {None} \cup {Some(RInt(a)) : a \in 1..MaxAmount}

MinTvls == {None, Some(MaxTvl)}

RouteInit ==
  /\ db \in RouteDbs
  /\ call = NoCall
  /\ ret = None

GetBestPool ==
  /\ call.op = "none"
  /\ \E id \in {"a", "b", "nope"}, amt \in RouteAmts(db), minBestTvl \in MinTvls :
       /\ call' = [op |-> "getBestPool", id |-> id, amt |-> amt,
                   minTvl |-> minBestTvl]
       /\ ret' = Some(getBestPool(db, id, amt, minBestTvl))
  /\ UNCHANGED db

Route ==
  /\ call.op = "none"
  /\ \E fromRef \in RouteRefs, toRef \in RouteRefs, amt \in RouteAmts(db),
        minTvl \in MinTvls :
       /\ db = ScenarioDb => fromRef = Some("uzig")
       /\ call' = [op |-> "route", from |-> fromRef, to |-> toRef, amt |-> amt,
                   minTvl |-> minTvl]
       /\ ret' = Some(route(db, fromRef, toRef, amt, minTvl))
  /\ UNCHANGED db

RouteSpecInit == RouteInit /\ OhlcvIdle /\ SwapIdle /\ RtIdle

RouteSpecNext ==
  \/ GetBestPool /\ UNCHANGED <<ohlcvVars, swapVars, rtVars>>
  \/ Route /\ UNCHANGED <<ohlcvVars, swapVars, rtVars>>

\* getBestPool and route over every content of the pool tables
RouteSpec == RouteSpecInit /\ [][RouteSpecNext]_vars

\* ------------------------------------------------------------------------
\* Pure helpers (pairFee, isUzigToken, scale, worthForClass)
\* ------------------------------------------------------------------------
\* the pair_type values of the calls: null, and a core wrapped in a prefix
\* and a suffix
FeeCores ==
  {<<>>,
   <<"x", "y", "k">>,
   <<"X", "Y", "K">>,
   <<"c", "o", "n", "c", "e", "n", "t", "r", "a", "t", "e", "d">>,
   <<"C", "o", "n", "c", "e", "n", "t", "r", "a", "t", "e", "d">>,
   <<"x", "y", "k", "_", "5", "0">>,
   <<"x", "y", "k", "-", "5", "0">>,
   <<"X", "y", "k", "_", "5">>,
   <<"x", "y", "k", "_">>,
   <<"x", "y", "k", "5", "0">>,
   <<"x", "y", "k", "_", "1", "0", "0", "0", "0">>,
   <<"x", "y", "k", "_", "2", "0", "0", "0", "0">>,
   <<"u", "n", "k", "n", "o", "w", "n">>}

FeeAffixes == {<<>>, <<"a">>, <<"7">>}

FeeInputs == {pre \o core \o suf : pre \in FeeAffixes, core \in FeeCores,
                                   suf \in FeeAffixes}

UtilInit ==
  /\ db = <<>>
  /\ call = NoCall
  /\ ret = None

PairFee ==
  /\ call.op = "none"
  /\ \E pairType \in FeeInputs :
       /\ call' = [op |-> "pairFee", pairType |-> pairType]
       /\ ret' = Some(pairFee(pairType))
  /\ UNCHANGED db

\* x || y of two nullable strings (null and '' are falsy)
OrElse(x, y) == IF IsSome(x) /\ Val(x) # <<>> THEN x ELSE y

UzigNames == {<<"u", "z", "i", "g">>, <<"z", "i", "g">>}

\* isUzigToken reading the denom and the symbol alike
isUzigToken_EitherField(tok) ==
  \/ tok.kind = "string" /\ toLowerCase(tok.str) \in UzigNames
  \/ tok.kind = "token" /\ IsSome(tok.denom) /\ toLowerCase(Val(tok.denom)) \in UzigNames
  \/ tok.kind = "token" /\ IsSome(tok.symbol) /\ toLowerCase(Val(tok.symbol)) \in UzigNames

\* isUzigToken(tok) of TokensService and TradesService, tok a string or a
\* token (kind "none" is a null tok)
isUzigToken(tok) ==
  LET raw == IF tok.kind = "string" THEN Some(tok.str)
             ELSE IF tok.kind = "token"
               THEN OrElse(OrElse(tok.denom, tok.symbol), Some(<<>>))
             ELSE Some(<<>>)
      v == toLowerCase(Val(OrElse(raw, Some(<<>>))))
  IN  v \in UzigNames

\* the denoms and symbols of the tokens passed to isUzigToken
UzigFields ==
  {None, Some(<<>>), Some(<<"u", "z", "i", "g">>), Some(<<"U", "Z", "I", "G">>),
   Some(<<"z", "i", "g">>), Some(<<"Z", "I", "G">>), Some(<<"i", "b", "c">>),
   Some(<<"u", "z", "i", "g", "x">>)}

UzigInputs ==
  {[kind |-> "none"]}
    \cup {[kind |-> "string", str |-> Val(s)] : s \in UzigFields \ {None}}
    \cup {[kind |-> "token", denom |-> d, symbol |-> s] : d \in UzigFields,
                                                          s \in UzigFields}

IsUzigToken ==
  /\ call.op = "none"
  /\ \E tok \in UzigInputs :
       /\ call' = [op |-> "isUzigToken", tok |-> tok]
       /\ ret' = Some(isUzigToken(tok))
  /\ UNCHANGED db

\* scale(base, exp, fallback): null for a null base, else base / 10 ** e
scale(base, exp, fallback) ==
  IF ~IsSome(base) THEN None
  ELSE Some(Rat(Val(base), Pow10(IF IsSome(exp) THEN Val(exp) ELSE fallback)))

\* x ?? 6 of a nullable exponent
OrSix(e) == IF IsSome(e) THEN e ELSE Some(6)

\* shapeRow(r, unit, zigUsd): the amounts, prices and values of one trade
shapeRow(r, zUsd) ==
  LET fx == IF IsSome(r.fx_zig_usd) THEN RInt(Val(r.fx_zig_usd)) ELSE zUsd
      offerScaled == scale(r.offer_amount_base,
                           IF r.offer_asset_denom = "uzig" THEN Some(6)
                           ELSE OrSix(r.offer_exp), 6)
      askScaled == scale(r.ask_amount_base,
                         IF r.ask_asset_denom = "uzig" THEN Some(6)
                         ELSE OrSix(r.ask_exp), 6)
      returnAsQuote == scale(r.return_amount_base, OrSix(r.qexp), 6)
      returnAsBase == scale(r.return_amount_base, OrSix(r.bexp), 6)
      rawQuote == IF r.direction = "buy"
                    THEN scale(r.offer_amount_base, OrSix(r.qexp), 6)
                    ELSE scale(r.return_amount_base, OrSix(r.qexp), 6)
      valueZig == IF r.is_uzig_quote THEN rawQuote
                  ELSE IF IsSome(r.pq_price_in_zig) /\ IsSome(rawQuote)
                    THEN Some(RMul(Val(rawQuote), RInt(Val(r.pq_price_in_zig))))
                  ELSE None
      baseAmt == IF r.direction = "buy" THEN returnAsBase
                 ELSE IF r.direction = "sell"
                   THEN scale(r.offer_amount_base, OrSix(r.bexp), 6)
                 ELSE None
      priceNative == IF IsSome(valueZig) /\ IsSome(baseAmt) /\ Val(baseAmt) # RZero
                       THEN Some(RDiv(Val(valueZig), Val(baseAmt))) ELSE None
      zigLegAmount ==
        IF r.offer_asset_denom = "uzig" /\ IsSome(offerScaled) THEN offerScaled
        ELSE IF r.ask_asset_denom = "uzig" /\ IsSome(askScaled) THEN askScaled
        ELSE None
  IN  [direction |-> r.direction,
       offerAmount |-> offerScaled,
       askAmount |-> askScaled,
       returnAmount |-> IF r.direction = "buy" THEN returnAsBase ELSE returnAsQuote,
       priceNative |-> priceNative,
       priceUsd |-> IF IsSome(priceNative) THEN Some(RMul(Val(priceNative), fx))
                    ELSE None,
       valueNative |-> valueZig,
       valueUsd |-> IF IsSome(valueZig) THEN Some(RMul(Val(valueZig), fx)) ELSE None,
       zigLegAmount |-> zigLegAmount,
       zig_usd_at_trade |-> fx]

worthForClass(item, unit, zUsd) ==
  LET zigBasis == IF IsSome(item.zigLegAmount) THEN item.zigLegAmount
                  ELSE item.valueNative
  IN  IF ~IsSome(zigBasis) THEN None
      ELSE IF unit = "usd" THEN Some(RMul(Val(zigBasis), item.zig_usd_at_trade))
      ELSE zigBasis

\* classifyByThreshold with x < 10000 for the upper bound of shark
classifyByThreshold_OpenUpper(x) ==
  IF RLt(x, RInt(1000)) THEN "shrimp"
  ELSE IF RLt(x, RInt(10000)) THEN "shark"
  ELSE "whale"

classifyByThreshold(x) ==
  IF RLt(x, RInt(1000)) THEN "shrimp"
  ELSE IF RLe(x, RInt(10000)) THEN "shark"
  ELSE "whale"

\* the rows.map callback of getAll: the shaped trade with its class
shapedWithClass(r, unit, zUsd) ==
  LET s == shapeRow(r, zUsd)
      w == worthForClass(s, unit, zUsd)
  IN  s @@ [class |-> IF IsSome(w) THEN Some(classifyByThreshold(Val(w))) ELSE None]

\* offer amounts in base units: 99.999, 100, 999.99, 1000 and 1000.0001
\* units at exponent 6
OfferAmounts ==
  {None, Some(99999000), Some(100000000), Some(999990000), Some(1000000000),
   Some(1000000100)}

\* the joined trade rows shaped by the calls
TradeRows ==
  {[offer_asset_denom |-> od, ask_asset_denom |-> ad, offer_amount_base |-> oa,
    ask_amount_base |-> aa, return_amount_base |-> ra, offer_exp |-> oe,
    ask_exp |-> None, qexp |-> None, bexp |-> None, is_uzig_quote |-> uq,
    direction |-> dir, pq_price_in_zig |-> pq, fx_zig_usd |-> fx] :
     od \in {"uzig", "tok"}, ad \in {"uzig", "tok"}, oa \in OfferAmounts,
     aa \in {None, Some(100000000)}, ra \in {None, Some(1000000000)},
     oe \in {None, Some(8)}, uq \in BOOLEAN, dir \in {"buy", "sell"},
     pq \in {None, Some(2)}, fx \in {None, Some(10)}}

ShapeRow ==
  /\ call.op = "none"
  /\ \E r \in TradeRows, unit \in {"usd", "zig"} :
       /\ call' = [op |-> "shapeRow", row |-> r, unit |-> unit]
       /\ ret' = Some(shapedWithClass(r, unit, ROne))
  /\ UNCHANGED db

\* Math.floor(t / stepSec) * stepSec as a number of the program: t / 0 is
\* Infinity (NaN for t = 0) and its floor times 0 is NaN
floorToStep(t, step) ==
  IF step = 0 THEN [finite |-> FALSE, v |-> 0]
  ELSE [finite |-> TRUE, v |-> (t \div step) * step]

\* stepSec, alignedFromSec and alignedToSecExclusive of the meta of
\* ohlcvAdvanced for q.tf (null when absent), from and to
alignedMeta(tf, fromSec, toSec) ==
  LET step == tfToSec(IF tf = <<>> THEN <<"1", "m">> ELSE tf)
      first == floorToStep(fromSec, step)
      last == floorToStep(toSec, step)
  IN  [stepSec |-> step,
       alignedFromSec |-> first,
       alignedToSecExclusive |-> [finite |-> last.finite, v |-> last.v + step]]

\* the timeframes requested
TfInputs ==
  {<<>>, <<"1", "m">>, <<"2", "m">>, <<"0", "m">>, <<"0", "h">>, <<"1", "h">>,
   <<"m">>, <<"1", "x">>}

AlignedMeta ==
  /\ call.op = "none"
  /\ \E tf \in TfInputs, fromSec \in ReqTimes, toSec \in ReqTimes :
       /\ fromSec <= toSec
       /\ call' = [op |-> "alignedMeta", tf |-> tf, fromSec |-> fromSec,
                   toSec |-> toSec]
       /\ ret' = Some(alignedMeta(tf, fromSec, toSec))
  /\ UNCHANGED db

UtilSpecInit == UtilInit /\ OhlcvIdle /\ SwapIdle /\ RtIdle

UtilSpecNext ==
  \/ PairFee /\ UNCHANGED <<ohlcvVars, swapVars, rtVars>>
  \/ IsUzigToken /\ UNCHANGED <<ohlcvVars, swapVars, rtVars>>
  \/ ShapeRow /\ UNCHANGED <<ohlcvVars, swapVars, rtVars>>
  \/ AlignedMeta /\ UNCHANGED <<ohlcvVars, swapVars, rtVars>>

\* the pure helpers applied to every input of the sets above
UtilSpec == UtilSpecInit /\ [][UtilSpecNext]_vars

\* ------------------------------------------------------------------------
\* Token lookups (resolveTokenId, resolveDominantSide, getOne)
\* ------------------------------------------------------------------------
\* s LIKE p: % matches any run of characters, _ any one character
RECURSIVE Like(_, _)
Like(s, p) ==
  IF p = <<>> THEN s = <<>>
  ELSE IF Head(p) = "%" THEN Like(s, Tail(p)) \/ (s # <<>> /\ Like(Tail(s), p))
  ELSE s # <<>> /\ Head(p) \in {"_", Head(s)} /\ Like(Tail(s), Tail(p))

\* s ILIKE p, false for a null s
ILike(s, p) == IsSome(s) /\ Like(toLowerCase(Val(s)), toLowerCase(p))

\* lower(s) = lower(q), false for a null s
LowerEq(s, p) == IsSome(s) /\ toLowerCase(Val(s)) = toLowerCase(p)

\* token_id::text
IdText(id) == <<CHOOSE c \in Digits : DigitVal(c) = id>>

\* the row of the native currency
NativeToken ==
  [token_id |-> 1, denom |-> <<"u", "z", "i", "g">>,
   symbol |-> Some(<<"Z", "I", "G">>), name |-> Some(<<"Z", "i", "g">>)]

\* the other rows of the tokens table: token 2 and token 3, each absent or
\* with one of the symbols and names below
TokenSymbols == {None, Some(<<"z", "i", "g">>), Some(<<"A", "b">>)}

TokenNames == {None, Some(<<"A", "b", "c">>), Some(<<"3">>)}

TokenTables ==
  {{NativeToken} \cup r2 \cup r3 :
     r2 \in {{}} \cup {{[token_id |-> 2, denom |-> <<"U", "z", "i", "g">>,
                         symbol |-> sy, name |-> nm]} :
                         sy \in TokenSymbols, nm \in TokenNames},
     r3 \in {{}} \cup {{[token_id |-> 3, denom |-> <<"a", "b">>,
                         symbol |-> sy, name |-> nm]} :
                         sy \in TokenSymbols, nm \in TokenNames}}

\* the identifiers looked up
TokenQueries ==
  {<<"u", "z", "i", "g">>, <<"U", "Z", "I", "G">>, <<"Z", "I", "G">>,
   <<"z", "i", "g">>, <<"a", "b">>, <<"A", "B">>, <<"a", "b", "c">>,
   <<"b">>, <<"a", "%">>, <<"2">>, <<"3">>, <<"n", "o">>}

\* rows[0] ?? null of a query with ORDER BY key(t), t.token_id DESC LIMIT 1
FirstByKey(rows, key(_)) ==
  IF rows = {} THEN None
  ELSE Some(CHOOSE t \in rows :
              \A o \in rows :
                \/ key(t) < key(o)
                \/ key(t) = key(o) /\ t.token_id >= o.token_id)

\* TokensService.resolveTokenId: the ORDER BY cases weigh 4, 2 and 1
resolveTokenId(tokens, qs) ==
  LET rows == {t \in tokens :
                 \/ t.denom = qs
                 \/ toLowerCase(t.denom) = toLowerCase(qs)
                 \/ t.symbol = Some(qs)
                 \/ LowerEq(t.symbol, qs)
                 \/ ILike(t.name, qs)
                 \/ IdText(t.token_id) = qs}
      key(t) == (IF t.denom = qs THEN 0 ELSE 4)
                  + (IF toLowerCase(t.denom) = toLowerCase(qs) THEN 0 ELSE 2)
                  + (IF LowerEq(t.symbol, qs) THEN 0 ELSE 1)
  IN  FirstByKey(rows, key)

\* resolveTokenId of TradesService and of SwapService (the same statement)
resolveTokenIdShared(tokens, qs) ==
  LET rows == {t \in tokens :
                 \/ t.denom = qs
                 \/ t.symbol = Some(qs)
                 \/ LowerEq(t.symbol, qs)
                 \/ IdText(t.token_id) = qs}
      key(t) == (IF t.denom = qs THEN 0 ELSE 2)
                  + (IF LowerEq(t.symbol, qs) THEN 0 ELSE 1)
  IN  FirstByKey(rows, key)

BaseStr == <<"b", "a", "s", "e">>

QuoteStr == <<"q", "u", "o", "t", "e">>

AutoStr == <<"a", "u", "t", "o">>

\* the pools table: every set of the rows below
PoolTables ==
  SUBSET {[pool_id |-> 1, base_token_id |-> 3, quote_token_id |-> 1, is_uzig_quote |-> TRUE],
          [pool_id |-> 2, base_token_id |-> 3, quote_token_id |-> 2, is_uzig_quote |-> FALSE],
          [pool_id |-> 3, base_token_id |-> 2, quote_token_id |-> 3, is_uzig_quote |-> FALSE],
          [pool_id |-> 4, base_token_id |-> 2, quote_token_id |-> 1, is_uzig_quote |-> TRUE]}

\* hasUzigPools ignoring is_uzig_quote
hasUzigPools_AnyQuote(poolTable, tokenId) ==
  \E p \in poolTable : p.base_token_id = tokenId

\* SELECT 1 FROM pools WHERE base_token_id=$1 AND is_uzig_quote=TRUE LIMIT 1
hasUzigPools(poolTable, tokenId) ==
  \E p \in poolTable : p.base_token_id = tokenId /\ p.is_uzig_quote

\* the tail of both resolveDominantSide
autoSide(poolTable, tokenId) ==
  IF hasUzigPools(poolTable, tokenId) THEN BaseStr
  ELSE IF \E p \in poolTable : p.quote_token_id = tokenId THEN QuoteStr
  ELSE BaseStr

\* TokensService.resolveDominantSide; dominant is null when absent
resolveDominantSide(poolTable, tokenId, dominant) ==
  LET want == OrElse(dominant, Some(BaseStr))
  IN  IF Val(want) # AutoStr THEN Val(want) ELSE autoSide(poolTable, tokenId)

\* TradesService.resolveDominantSide
resolveDominantSideTrades(poolTable, tokenId, dominant) ==
  LET want == toLowerCase(Val(OrElse(dominant, Some(BaseStr))))
  IN  IF want = BaseStr \/ want = QuoteStr THEN want
      ELSE autoSide(poolTable, tokenId)

\* the requested sides of the calls
DominantInputs ==
  {None, Some(<<>>), Some(BaseStr), Some(QuoteStr), Some(AutoStr),
   Some(<<"B", "A", "S", "E">>), Some(<<"A", "u", "t", "o">>), Some(<<"x">>)}

ResolveDominantSide ==
  /\ call.op = "none"
  /\ \E tokenId \in {2, 3}, dominant \in DominantInputs :
       /\ call' = [op |-> "resolveDominantSide", svc |-> "tokens",
                   tokenId |-> tokenId, dominant |-> dominant]
       /\ ret' = Some(resolveDominantSide(db.pools, tokenId, dominant))
  /\ UNCHANGED db

ResolveDominantSideTrades ==
  /\ call.op = "none"
  /\ \E tokenId \in {2, 3}, dominant \in DominantInputs :
       /\ call' = [op |-> "resolveDominantSide", svc |-> "trades",
                   tokenId |-> tokenId, dominant |-> dominant]
       /\ ret' = Some(resolveDominantSideTrades(db.pools, tokenId, dominant))
  /\ UNCHANGED db

TokenInit ==
  /\ db \in {[tokens |-> tt, pools |-> pt] : tt \in TokenTables, pt \in PoolTables}
  /\ call = NoCall
  /\ ret = None

ResolveTokenId ==
  /\ call.op = "none"
  /\ \E qs \in TokenQueries :
       /\ call' = [op |-> "resolveTokenId", svc |-> "tokens", q |-> qs]
       /\ ret' = Some(resolveTokenId(db.tokens, qs))
  /\ UNCHANGED db

ResolveTokenIdShared ==
  /\ call.op = "none"
  /\ \E qs \in TokenQueries, svc \in {"trades", "swap"} :
       /\ call' = [op |-> "resolveTokenId", svc |-> svc, q |-> qs]
       /\ ret' = Some(resolveTokenIdShared(db.tokens, qs))
  /\ UNCHANGED db

TokenSpecInit == TokenInit /\ OhlcvIdle /\ SwapIdle /\ RtIdle

TokenSpecNext ==
  \/ ResolveTokenId /\ UNCHANGED <<ohlcvVars, swapVars, rtVars>>
  \/ ResolveTokenIdShared /\ UNCHANGED <<ohlcvVars, swapVars, rtVars>>
  \/ ResolveDominantSide /\ UNCHANGED <<ohlcvVars, swapVars, rtVars>>
  \/ ResolveDominantSideTrades /\ UNCHANGED <<ohlcvVars, swapVars, rtVars>>

\* the lookups over every content of the tokens table
TokenSpec == TokenSpecInit /\ [][TokenSpecNext]_vars

\* ------------------------------------------------------------------------
\* Token summary (TokensService.getOne)
\* ------------------------------------------------------------------------
\* the stores read by getOne: the latest exchange rate (null when the table
\* is empty), the pools of token A, the supply columns of its tokens row and
\* its ibc_token_stats row.  Without an exchange rate the pools hold no
\* reserves: the default amount 100 / 1e-9 of the simulation is outside the
\* integers of the model.
SummaryDbs ==
  {[zig_usd |-> z, rows |-> (TokenA :> ra @@ TokenB :> <<>>),
    supply |-> [total_supply_base |-> ts0, max_supply_base |-> ms0, exponent |-> e],
    ibc |-> ibc] :
     z \in {None, Some(StoredPrice)},
     ra \in {<<>>} \cup {<<r>> : r \in FirstRows},
     ts0 \in {None, Some(CircSupply)}, ms0 \in {None, Some(CircSupply)},
     e \in {None, Some(0)},
     ibc \in {None, Some([priceUsd |-> Some(RInt(StoredPrice)),
                          marketCapUsd |-> Some(RInt(StoredPrice)),
                          circSupply |-> None, totalSupply |-> None])}}

SummaryStores ==
  {d \in SummaryDbs :
     d.zig_usd = None =>
       \A i \in 1..Len(d.rows[TokenA]) :
         ~IsSome(d.rows[TokenA][i].pool_state)
           \/ Val(d.rows[TokenA][i].pool_state).reserve_base_base = 0}

\* pickPoolBySide(tokenId, 'base', false): a pool with the token as base
pickPoolBySide(rows) == IF Len(rows) = 0 THEN None ELSE Some(rows[1].pool_id)

\* the summary of getOne once zigUsd, the pools of the token and the best
\* sell pool are known: the price, market cap, fdv, supply and liquidity
tokenSummary(d, zUsd, rows, selectedBest) ==
  LET ibcStats == d.ibc
      exp == IF IsSome(d.supply.exponent) THEN Val(d.supply.exponent) ELSE 6
      circBase == scale(d.supply.total_supply_base, Some(exp), 0)
      maxBase == scale(d.supply.max_supply_base, Some(exp), 0)
      circ == IF IsSome(circBase) THEN circBase
              ELSE IF IsSome(ibcStats) THEN Val(ibcStats).circSupply ELSE None
      max == IF IsSome(maxBase) THEN maxBase
             ELSE IF IsSome(ibcStats) THEN Val(ibcStats).totalSupply ELSE None
      selectedPoolId == IF IsSome(selectedBest) THEN Some(Val(selectedBest).pool.poolId)
                        ELSE pickPoolBySide(rows)
      priced == {i \in 1..Len(rows) : Some(rows[i].pool_id) = selectedPoolId}
      stored == IF priced = {} THEN None ELSE rows[CHOOSE i \in priced : TRUE].price_in_zig
      priceNative == IF IsSome(stored) THEN Some(RInt(Val(stored)))
                     ELSE IF IsSome(selectedBest)
                       THEN Some(Val(selectedBest).pool.priceInZig)
                     ELSE None
      tvl(r) == LET p == loadPoolPriced(r)
                IN  RAdd(RMul(p.tokenReserve, p.priceInZig), p.zigReserve)
      liquidityNativeZig ==
        IF Len(rows) = 0 THEN RZero
        ELSE IF Len(rows) = 1 THEN tvl(rows[1])
        ELSE RAdd(tvl(rows[1]), tvl(rows[2]))
      mcNative == IF IsSome(priceNative) /\ IsSome(circ)
                    THEN Some(RMul(Val(circ), Val(priceNative))) ELSE None
      fdvNative == IF IsSome(priceNative) /\ IsSome(max)
                     THEN Some(RMul(Val(max), Val(priceNative))) ELSE None
      ibcPriceUsd == IF IsSome(ibcStats) THEN Val(ibcStats).priceUsd ELSE None
      ibcCapUsd == IF IsSome(ibcStats) THEN Val(ibcStats).marketCapUsd ELSE None
      mcNativeAdj == IF IsSome(mcNative) THEN mcNative
                     ELSE IF IsSome(ibcCapUsd) /\ RGt(zUsd, RZero)
                       THEN Some(RDiv(Val(ibcCapUsd), zUsd))
                     ELSE None
  IN  [success |-> TRUE,
       data |->
         [price |->
            [source |-> "best",
             poolId |-> selectedPoolId,
             native |-> IF IsSome(priceNative) THEN priceNative
                        ELSE IF IsSome(ibcPriceUsd) /\ RGt(zUsd, RZero)
                          THEN Some(RDiv(Val(ibcPriceUsd), zUsd))
                        ELSE None,
             usd |-> IF IsSome(priceNative) THEN Some(RMul(Val(priceNative), zUsd))
                     ELSE ibcPriceUsd],
          mcapDetail |->
            [native |-> mcNativeAdj,
             usd |-> IF IsSome(mcNativeAdj) THEN Some(RMul(Val(mcNativeAdj), zUsd))
                     ELSE ibcCapUsd],
          fdvDetail |->
            [native |-> fdvNative,
             usd |-> IF IsSome(fdvNative) THEN Some(RMul(Val(fdvNative), zUsd))
                     ELSE None],
          supply |-> [circulating |-> circ, max |-> max],
          liquidity |-> RMul(liquidityNativeZig, zUsd),
          liquidityNative |-> liquidityNativeZig]]

\* getOne(id) with the default options (priceSource 'best', dominant and
\* view absent) for a token that is not the native currency
getOne(d, id) ==
  IF id \notin TokenRefs THEN [success |-> FALSE, error |-> "token not found"]
  ELSE tokenSummary(d, zigUsd(d.zig_usd), d.rows[TokenIdOf(id)],
                    bestPool("sell", d.rows[TokenIdOf(id)], None, 0,
                             zigUsd(d.zig_usd)))

SummaryInit ==
  /\ db \in SummaryStores
  /\ call = NoCall
  /\ ret = None

GetOne ==
  /\ call.op = "none"
  /\ \E id \in {"a", "b", "nope"} :
       /\ call' = [op |-> "getOne", id |-> id]
       /\ ret' = Some(getOne(db, id))
  /\ UNCHANGED db

SummarySpecInit == SummaryInit /\ OhlcvIdle /\ SwapIdle /\ RtIdle

SummarySpecNext == GetOne /\ UNCHANGED <<ohlcvVars, swapVars, rtVars>>

\* getOne over every content of the stores
SummarySpec == SummarySpecInit /\ [][SummarySpecNext]_vars

\* ------------------------------------------------------------------------
\* Token summary publisher (TokenSummaryPublisher)
\* ------------------------------------------------------------------------
\* the clock makes at most MaxTicks steps
MaxTicks == 3

MaxClock == MIN_INTERVAL_MS + MaxTicks * TickMs

\* messages of the dirty channel: a text that is not JSON, or a payload whose
\* token_id is absent, the empty string, a token of the store or an unknown
\* one
DirtyMessages ==
  {[json |-> FALSE, token_id |-> None]}
    \cup {[json |-> TRUE, token_id |-> t] :
            t \in {None, Some(""), Some("a"), Some("b"), Some("nope")}}

\* JSON.parse, then payload?.token_id != null ? String(payload.token_id) : null
\* (String leaves a string as it is), then if (!tokenId) return
dirtyTokenId(message) ==
  IF ~message.json THEN None
  ELSE IF ~IsSome(message.token_id) THEN None
  ELSE IF Val(message.token_id) = "" THEN None
  ELSE message.token_id

\* this.lastSent.get(tokenId) || 0
lastSentOr0(tokenId) ==
  IF tokenId \in DOMAIN lastSent THEN lastSent[tokenId] ELSE 0

\* if (now - last < MIN_INTERVAL_MS) return
accepts(tokenId) == ~(clock - lastSentOr0(tokenId) < MIN_INTERVAL_MS)

\* summary.success === true: getOne found the token
summaryFound(tokenId) == tokenId \in TokenRefs

\* the message published for a call accepted at task.now: its data is the
\* summary whose computation started then
summaryMessage(task) ==
  [type |-> "token_summary", ts |-> clock, token_id |-> task.tokenId,
   data |-> [startedAt |-> task.now]]

PublisherInit == PubIdle

\* handleMessage up to the await of getOne
HandleMessage ==
  /\ \E message \in DirtyMessages :
       LET tokenId == dirtyTokenId(message)
       IN  IF ~IsSome(tokenId) THEN UNCHANGED <<lastSent, pending, lastDirty>>
           ELSE /\ lastDirty' = (Val(tokenId) :> clock) @@ lastDirty
                /\ IF accepts(Val(tokenId))
                     THEN /\ lastSent' = (Val(tokenId) :> clock) @@ lastSent
                          /\ pending' = pending \cup {[tokenId |-> Val(tokenId),
                                                       now |-> clock]}
                     ELSE UNCHANGED <<lastSent, pending>>
  /\ UNCHANGED <<clock, published, faulted>>

\* getOne returns to one of the waiting calls, which publishes the summary
\* when the token was found
GetOneReturns ==
  /\ \E task \in pending :
       /\ pending' = pending \ {task}
       /\ published' = IF summaryFound(task.tokenId)
                         THEN Append(published, summaryMessage(task))
                         ELSE published
  /\ UNCHANGED <<clock, lastSent, lastDirty, faulted>>

\* getOne throws: handleMessage rejects and the rejection is swallowed
GetOneThrows ==
  /\ \E task \in pending : pending' = pending \ {task}
  /\ faulted' = TRUE
  /\ UNCHANGED <<clock, lastSent, published, lastDirty>>

\* time passes
Tick ==
  /\ clock < MaxClock
  /\ clock' = clock + TickMs
  /\ UNCHANGED <<lastSent, pending, published, lastDirty, faulted>>

PublisherSpecInit == PublisherInit /\ WsIdle /\ OhlcvIdle /\ SwapIdle /\ ApiIdle

\* what the publisher leaves alone
pubOthers == <<ohlcvVars, swapVars, apiVars, wsVars>>

PublisherSpecNext ==
  \/ HandleMessage /\ UNCHANGED pubOthers
  \/ GetOneReturns /\ UNCHANGED pubOthers
  \/ GetOneThrows /\ UNCHANGED pubOthers
  \/ Tick /\ UNCHANGED pubOthers

\* dirty events at any time, getOne calls of any duration
PublisherSpec == PublisherSpecInit /\ [][PublisherSpecNext]_vars

\* the same with every call to getOne settling in the end
PublisherLiveSpec ==
  /\ PublisherSpecInit
  /\ [][PublisherSpecNext]_vars
  /\ WF_vars(GetOneReturns /\ UNCHANGED pubOthers)

\* ------------------------------------------------------------------------
\* Response cache (RedisCacheInterceptor)
\* ------------------------------------------------------------------------
\* the values of the settings when the variable is not set:
\* Number(process.env.CACHE_TTL || 5), Number(process.env.CACHE_TTL_MAX || 300)
CacheDefaults == [CACHE_TTL |-> 5, CACHE_TTL_MAX |-> 300]

\* Number(process.env.X || fallback) of a variable that is unset (or empty)
\* or the text of a number; the text "0" is not falsy
EnvNumber(v, fallback) == IF IsSome(v) THEN Val(v) ELSE fallback

\* private readonly defaultTtlSec = Math.max(1, Number(process.env.CACHE_TTL || 5))
defaultTtlSec(env) == Max(1, EnvNumber(env.CACHE_TTL, CacheDefaults.CACHE_TTL))

\* private readonly maxTtlSec = Math.max(this.defaultTtlSec, Number(... || 300))
maxTtlSec(env) ==
  Max(defaultTtlSec(env), EnvNumber(env.CACHE_TTL_MAX, CacheDefaults.CACHE_TTL_MAX))

\* Number.isFinite(v) && v > 0 of a header or metadata value, NaN or
\* undefined being null
usableTtl(v) == IsSome(v) /\ Val(v) > 0

\* header > decorator > env default
baseTtl(env, headerTtl, metaTtl) ==
  IF usableTtl(headerTtl) THEN Val(headerTtl)
  ELSE IF usableTtl(metaTtl) THEN Val(metaTtl)
  ELSE defaultTtlSec(env)

\* const ttl = Math.min(baseTtl, this.maxTtlSec)
cappedTtl(env, headerTtl, metaTtl) ==
  Min(baseTtl(env, headerTtl, metaTtl), maxTtlSec(env))

\* Math.round of a number that is not negative
MathRound(x) == (2 * x.num + x.den) \div (2 * x.den)

\* Math.max(1, Math.round(ttl * (0.8 + Math.random() * 0.4)))
jitteredTtl(ttl, random) ==
  Max(1, MathRound(RMul(RInt(ttl), RAdd(Rat(8, 10), RMul(random, Rat(4, 10))))))

\* the header X-Cache and the expiry of the setEx call (null when nothing is
\* stored) of one request
intercept(env, req) ==
  IF req.bypassMeta \/ req.method # "GET" \/ req.bypass \/ ~req.redisReady
    THEN [xCache |-> "BYPASS", setEx |-> None]
  ELSE IF req.cached THEN [xCache |-> "HIT", setEx |-> None]
  ELSE [xCache |-> "MISS",
        setEx |-> IF req.statusCode = 200 /\ req.storable
                    THEN Some(jitteredTtl(cappedTtl(env, req.headerTtl, req.metaTtl),
                                          req.random))
                    ELSE None]

\* the settings: each unset, or a number of seconds
CacheEnvs ==
  {[CACHE_TTL |-> t, CACHE_TTL_MAX |-> m] :
     t \in {None, Some(0), Some(2), Some(400)}, m \in {None, Some(10), Some(20)}}

\* values of Math.random()
Randoms == {RZero, Rat(1, 2), Rat(99, 100)}

\* x-cache-ttl and @CacheTTL values: absent or not a number, zero, or seconds
HeaderTtls == {None, Some(0), Some(1), Some(15), Some(400)}

MetaTtls == {None, Some(0), Some(8), Some(600)}

\* the requests that reach the TTL resolution, and the requests of every
\* other path
CacheRequests ==
  {[bypassMeta |-> FALSE, method |-> "GET", bypass |-> FALSE, redisReady |-> TRUE,
    cached |-> FALSE, statusCode |-> 200, storable |-> TRUE,
    headerTtl |-> h, metaTtl |-> m, random |-> r] :
     h \in HeaderTtls, m \in MetaTtls, r \in Randoms}
  \cup
  {[bypassMeta |-> bm, method |-> me, bypass |-> by, redisReady |-> rr,
    cached |-> ca, statusCode |-> sc, storable |-> st,
    headerTtl |-> None, metaTtl |-> None, random |-> RZero] :
     bm \in BOOLEAN, me \in {"GET", "POST"}, by \in BOOLEAN, rr \in BOOLEAN,
     ca \in BOOLEAN, sc \in {200, 404}, st \in BOOLEAN}

CacheInit ==
  /\ db \in {[env |-> e] : e \in CacheEnvs}
  /\ call = NoCall
  /\ ret = None

\* one request through the interceptor, with the write of its response
Intercept ==
  /\ call.op = "none"
  /\ \E req \in CacheRequests :
       /\ call' = [op |-> "intercept", req |-> req]
       /\ ret' = Some(intercept(db.env, req))
  /\ UNCHANGED db

CacheSpecInit == CacheInit /\ OhlcvIdle /\ SwapIdle /\ RtIdle

CacheSpecNext == Intercept /\ UNCHANGED <<ohlcvVars, swapVars, rtVars>>

\* requests through the interceptor under every setting
CacheSpec == CacheSpecInit /\ [][CacheSpecNext]_vars

\* ------------------------------------------------------------------------
\* WebSocket rooms and Redis fan-out (startWS).  Strings are sequences of
\* characters; rooms maps a room key to its set of sockets, socketRooms a
\* socket to its set of room keys, readyState a connected socket to the
\* state the ws library reports, and sends a socket to the room keys through
\* which the Redis message of the latest step was sent to it (one ws.send
\* call each; empty when the latest step was not a fan-out).
\* ------------------------------------------------------------------------
Sockets == {"s1", "s2"}

\* a JSON number
JsonNumber(n) == [t |-> "number", num |-> n, str |-> <<>>]

\* a JSON string
JsonString(str) == [t |-> "string", num |-> 0, str |-> str]

\* String.prototype.trim
RECURSIVE trim(_)
trim(str) ==
  IF str = <<>> THEN str
  ELSE IF Head(str) = " " THEN trim(Tail(str))
  ELSE IF str[Len(str)] = " " THEN trim(SubSeq(str, 1, Len(str) - 1))
  ELSE str

\* Number(str) of a string: 0 for a blank one, the value of a run of
\* digits, NaN (null here) otherwise
NumberOfString(str) ==
  IF trim(str) = <<>> THEN Some(0)
  ELSE IF \A i \in 1..Len(trim(str)) : trim(str)[i] \in Digits
       THEN Some(NumberOfDigits(trim(str)))
  ELSE None

DigitChar(d) ==
  CASE d = 0 -> "0" [] d = 1 -> "1" [] d = 2 -> "2" [] d = 3 -> "3"
    [] d = 4 -> "4" [] d = 5 -> "5" [] d = 6 -> "6" [] d = 7 -> "7"
    [] d = 8 -> "8" [] d = 9 -> "9"

\* String(n) of a natural number
RECURSIVE StringOfNumber(_)
StringOfNumber(n) ==
  IF n < 10 THEN <<DigitChar(n)>>
  ELSE StringOfNumber(n \div 10) \o <<DigitChar(n % 10)>>

\* normalizePoolId: v is null, a JSON number or a JSON string
normalizePoolId(v) ==
  IF ~IsSome(v) THEN None
  ELSE IF Val(v).t = "number" THEN Some(StringOfNumber(Val(v).num))
  ELSE IF IsSome(NumberOfString(Val(v).str))
       THEN Some(StringOfNumber(Val(NumberOfString(Val(v).str))))
  ELSE None

\* normalizePair
normalizePair(v) ==
  IF ~IsSome(v) \/ Val(v) = <<>> THEN None ELSE Some(trim(Val(v)))

\* normalizeTokenId
normalizeTokenId(v) ==
  IF ~IsSome(v) \/ Val(v) = <<>> THEN None
  ELSE Some(toLowerCase(trim(Val(v))))

HexChars == Digits \cup {"a", "b", "c", "d", "e", "f"}

\* the length of the match of /^ibc\/[a-f0-9]+\//i in str, 0 without one;
\* i is the position after the hexadecimal characters read so far
RECURSIVE IbcMatchLen(_, _)
IbcMatchLen(str, i) ==
  IF i > Len(str) THEN 0
  ELSE IF LowerChar(str[i]) \in HexChars THEN IbcMatchLen(str, i + 1)
  ELSE IF str[i] = "/" /\ i > 5 THEN i
  ELSE 0

IbcPrefix == <<"i", "b", "c", "/">>

\* lower.replace(/^ibc\/[a-f0-9]+\//i, '')
withoutIbcPrefix(str) ==
  IF Len(str) >= 4 /\ toLowerCase(SubSeq(str, 1, 4)) = IbcPrefix
  THEN SubSeq(str, IbcMatchLen(str, 5) + 1, Len(str))
  ELSE str

TokenRoom == <<"t", "o", "k", "e", "n", ":">>

\* Array.from of a Set the values were added to in this order
RECURSIVE arrayFromSet(_)
arrayFromSet(values) ==
  IF values = <<>> THEN <<>>
  ELSE LET front == arrayFromSet(SubSeq(values, 1, Len(values) - 1))
       IN  IF \E i \in 1..Len(front) : front[i] = values[Len(values)] THEN front
           ELSE Append(front, values[Len(values)])

\* tokenRoomVariants: the room keys of a denom
tokenRoomVariants(denom) ==
  IF ~IsSome(denom) \/ Val(denom) = <<>> THEN <<>>
  ELSE arrayFromSet(<<TokenRoom \o toLowerCase(trim(Val(denom))),
                      TokenRoom \o trim(Val(denom)),
                      TokenRoom \o withoutIbcPrefix(toLowerCase(trim(Val(denom))))>>)

StreamTrades == <<"s", "t", "r", "e", "a", "m", ":", "t", "r", "a", "d", "e", "s">>

StreamZigTrades ==
  <<"s", "t", "r", "e", "a", "m", ":", "z", "i", "g", "_", "t", "r", "a", "d", "e", "s">>

StreamTokenSummary ==
  <<"s", "t", "r", "e", "a", "m", ":", "t", "o", "k", "e", "n", "_",
    "s", "u", "m", "m", "a", "r", "y">>

PoolRoom == <<"p", "o", "o", "l", ":">>

PairRoom == <<"p", "a", "i", "r", ":">>

ZigPoolRoom == <<"z", "i", "g", ":">> \o PoolRoom

ZigPairRoom == <<"z", "i", "g", ":">> \o PairRoom

TokenSummaryRoom ==
  <<"t", "o", "k", "e", "n", "_", "s", "u", "m", "m", "a", "r", "y", ":">>

CandlePoolRoom == <<"c", "a", "n", "d", "l", "e", ":">> \o PoolRoom

CandlePairRoom == <<"c", "a", "n", "d", "l", "e", ":">> \o PairRoom

\* `${prefix}${id}` when id is truthy, no room otherwise
roomOf(prefix, id) == IF IsSome(id) THEN Some(prefix \o Val(id)) ELSE None

\* `${prefix}${id}:${tf}:${unit}` when id is truthy
candleRoomOf(prefix, id, tf, unit) ==
  IF IsSome(id) THEN Some(prefix \o Val(id) \o <<":">> \o tf \o <<":">> \o unit)
  ELSE None

\* a room key when the condition holds
roomIf(cond, roomKey) == IF cond THEN Some(roomKey) ELSE None

\* Map.get(key) of a map of sets, the empty set when the key is absent
setAt(map, key) == IF key \in DOMAIN map THEN map[key] ELSE {}

\* map.get(key).add(member), creating the set when the key is absent
withMember(map, key, member) ==
  [x \in DOMAIN map \cup {key} |->
     IF x = key THEN setAt(map, key) \cup {member} ELSE map[x]]

\* set.delete(member) and map.delete(key) when the set is left empty
withoutMember(map, key, member) ==
  IF key \notin DOMAIN map THEN map
  ELSE IF map[key] \ {member} = {} THEN [x \in DOMAIN map \ {key} |-> map[x]]
  ELSE [map EXCEPT ![key] = @ \ {member}]

\* removeFromRoom that keeps the emptied set of a room
removeFromRoom_KeepsEmptyRoom(reg, sock, roomKey) ==
  [rooms |-> IF roomKey \in DOMAIN reg.rooms
             THEN [reg.rooms EXCEPT ![roomKey] = @ \ {sock}]
             ELSE reg.rooms,
   socketRooms |-> withoutMember(reg.socketRooms, sock, roomKey)]

\* addToRoom on the registry reg = [rooms, socketRooms]; roomKey may be null
addToRoom(reg, sock, roomKey) ==
  IF ~IsSome(roomKey) THEN reg
  ELSE [rooms |-> withMember(reg.rooms, Val(roomKey), sock),
        socketRooms |-> withMember(reg.socketRooms, sock, Val(roomKey))]

\* removeFromRoom
removeFromRoom(reg, sock, roomKey) ==
  [rooms |-> withoutMember(reg.rooms, roomKey, sock),
   socketRooms |-> withoutMember(reg.socketRooms, sock, roomKey)]

\* the addToRoom calls of one handler, in order
RECURSIVE addToRooms(_, _, _)
addToRooms(reg, sock, roomKeys) ==
  IF roomKeys = <<>> THEN reg
  ELSE addToRooms(addToRoom(reg, sock, Head(roomKeys)), sock, Tail(roomKeys))

\* the removeFromRoom calls of one handler, in order; a null key is a call
\* that is not made
RECURSIVE removeFromRooms(_, _, _)
removeFromRooms(reg, sock, roomKeys) ==
  IF roomKeys = <<>> THEN reg
  ELSE removeFromRooms(
         IF IsSome(Head(roomKeys)) THEN removeFromRoom(reg, sock, Val(Head(roomKeys)))
         ELSE reg,
         sock, Tail(roomKeys))

\* removeFromAllRooms: removeFromRoom for every key of the socket
RECURSIVE removeFromAllRooms(_, _)
removeFromAllRooms(reg, sock) ==
  IF sock \notin DOMAIN reg.socketRooms THEN reg
  ELSE removeFromAllRooms(
         removeFromRoom(reg, sock, CHOOSE k \in reg.socketRooms[sock] : TRUE),
         sock)

\* broadcastRoom: the sockets ws.send is called on
broadcastRoom(roomKey) ==
  {sock \in setAt(rooms, roomKey) :
     sock \in DOMAIN readyState /\ readyState[sock] = "OPEN"}

\* the room keys, in the order of the broadcastRoom calls, through which a
\* socket was sent the message
RECURSIVE sentThrough(_, _)
sentThrough(sock, roomKeys) ==
  IF roomKeys = <<>> THEN <<>>
  ELSE (IF sock \in broadcastRoom(Head(roomKeys)) THEN <<Head(roomKeys)>> ELSE <<>>)
       \o sentThrough(sock, Tail(roomKeys))

\* the ws.send calls of the broadcastRoom calls on roomKeys
fanOut(roomKeys) ==
  [sock \in {x \in Sockets : sentThrough(x, roomKeys) # <<>>} |->
     sentThrough(sock, roomKeys)]

\* the JSON.parse of a frame sent by a client
ClientMessage(type, stream, pool_id, pair_contract, token_id, all) ==
  [type |-> type, stream |-> stream, pool_id |-> pool_id,
   pair_contract |-> pair_contract, token_id |-> token_id, all |-> all,
   tf |-> None, unit |-> None]

DefaultTf == <<"1", "m">>

DefaultUnit == <<"z", "i", "g">>

\* String(msg.tf || '1m')
candleTf(msg) == Val(OrElse(msg.tf, Some(DefaultTf)))

\* String(msg.unit || 'zig')
candleUnit(msg) == Val(OrElse(msg.unit, Some(DefaultUnit)))

\* the addToRoom calls of sub trades: the whole stream only without filter
subTradesRooms(poolId, pair, tokenId) ==
  <<roomIf(~(IsSome(poolId) \/ IsSome(pair) \/ IsSome(tokenId)), StreamTrades),
    roomOf(PoolRoom, poolId), roomOf(PairRoom, pair), roomOf(TokenRoom, tokenId)>>

\* the addToRoom calls of sub zig_trades
subZigTradesRooms(poolId, pair) ==
  <<Some(StreamZigTrades), roomOf(ZigPoolRoom, poolId), roomOf(ZigPairRoom, pair)>>

\* the addToRoom calls of sub token_summary
subTokenSummaryRooms(tokenId) ==
  <<roomIf(~IsSome(tokenId), StreamTokenSummary), roomOf(TokenSummaryRoom, tokenId)>>

\* the removeFromRoom calls of unsub trades
unsubTradesRooms(poolId, pair, tokenId, all) ==
  <<roomOf(PoolRoom, poolId), roomOf(PairRoom, pair), roomOf(TokenRoom, tokenId),
    roomIf(all, StreamTrades)>>

\* the removeFromRoom calls of unsub zig_trades
unsubZigTradesRooms(poolId, pair, all) ==
  <<roomOf(ZigPoolRoom, poolId), roomOf(ZigPairRoom, pair), roomIf(all, StreamZigTrades)>>

\* the removeFromRoom calls of unsub token_summary
unsubTokenSummaryRooms(tokenId, all) ==
  <<roomOf(TokenSummaryRoom, tokenId), roomIf(all, StreamTokenSummary)>>

\* the rooms of sub candles and of unsub candles
candleRooms(poolId, pair, tf, unit) ==
  <<candleRoomOf(CandlePoolRoom, poolId, tf, unit),
    candleRoomOf(CandlePairRoom, pair, tf, unit)>>

\* ws.on('message'): the registry after the handler
onMessage(reg, sock, msg) ==
  CASE msg.type = "ping" -> reg
    [] msg.type = "sub" /\ msg.stream = "trades" ->
         addToRooms(reg, sock,
           subTradesRooms(normalizePoolId(msg.pool_id), normalizePair(msg.pair_contract),
                          normalizeTokenId(msg.token_id)))
    [] msg.type = "sub" /\ msg.stream = "zig_trades" ->
         addToRooms(reg, sock,
           subZigTradesRooms(normalizePoolId(msg.pool_id), normalizePair(msg.pair_contract)))
    [] msg.type = "sub" /\ msg.stream = "token_summary" ->
         addToRooms(reg, sock, subTokenSummaryRooms(normalizeTokenId(msg.token_id)))
    [] msg.type = "unsub" /\ msg.stream = "trades" ->
         removeFromRooms(reg, sock,
           unsubTradesRooms(normalizePoolId(msg.pool_id), normalizePair(msg.pair_contract),
                            normalizeTokenId(msg.token_id), msg.all))
    [] msg.type = "unsub" /\ msg.stream = "zig_trades" ->
         removeFromRooms(reg, sock,
           unsubZigTradesRooms(normalizePoolId(msg.pool_id),
                               normalizePair(msg.pair_contract), msg.all))
    [] msg.type = "unsub" /\ msg.stream = "token_summary" ->
         removeFromRooms(reg, sock,
           unsubTokenSummaryRooms(normalizeTokenId(msg.token_id), msg.all))
    [] msg.type = "sub" /\ msg.stream = "candles" ->
         addToRooms(reg, sock,
           candleRooms(normalizePoolId(msg.pool_id), normalizePair(msg.pair_contract),
                       candleTf(msg), candleUnit(msg)))
    [] msg.type = "unsub" /\ msg.stream = "candles" ->
         removeFromRooms(reg, sock,
           candleRooms(normalizePoolId(msg.pool_id), normalizePair(msg.pair_contract),
                       candleTf(msg), candleUnit(msg)))
    [] OTHER -> reg

\* the rooms onTrade broadcasts to, in order
tradeRooms(payload) ==
  SelectSeq(<<Some(StreamTrades),
              roomOf(PoolRoom, normalizePoolId(payload.pool_id)),
              roomOf(PairRoom, normalizePair(payload.pair_contract))>>, IsSome)
  \o [i \in 1..Len(tokenRoomVariants(payload.offer_asset_denom)) |->
        Some(tokenRoomVariants(payload.offer_asset_denom)[i])]
  \o [i \in 1..Len(tokenRoomVariants(payload.ask_asset_denom)) |->
        Some(tokenRoomVariants(payload.ask_asset_denom)[i])]

\* the rooms onZigTrade broadcasts to
zigTradeRooms(payload) ==
  SelectSeq(<<Some(StreamZigTrades),
              roomOf(ZigPoolRoom, normalizePoolId(payload.pool_id)),
              roomOf(ZigPairRoom, normalizePair(payload.pair_contract))>>, IsSome)

\* the rooms onTokenSummary broadcasts to; String(tokenId) keeps the case
tokenSummaryRooms(payload) ==
  SelectSeq(<<Some(StreamTokenSummary),
              roomOf(TokenSummaryRoom, payload.token_id)>>, IsSome)

\* the rooms onCandle broadcasts to
candleBroadcastRooms(payload) ==
  SelectSeq(candleRooms(normalizePoolId(payload.pool_id),
                        normalizePair(payload.pair_contract),
                        candleTf(payload), candleUnit(payload)), IsSome)

\* the room keys of a sequence of non-null keys
RECURSIVE keysOf(_)
keysOf(roomKeys) ==
  IF roomKeys = <<>> THEN <<>> ELSE <<Val(Head(roomKeys))>> \o keysOf(Tail(roomKeys))

PoolOne == <<"1">>

PairP == <<"p">>

TokenT == <<"T">>

\* the frames the clients send
ClientMessages ==
  {ClientMessage("ping", "", None, None, None, FALSE),
   ClientMessage("sub", "trades", None, None, None, FALSE),
   ClientMessage("sub", "trades", Some(JsonString(<<"x">>)), None, None, FALSE),
   ClientMessage("sub", "trades", Some(JsonString(<<"0", "1">>)), Some(PairP),
                 Some(TokenT), FALSE),
   ClientMessage("unsub", "trades", Some(JsonNumber(1)), Some(<<" ", "p">>),
                 Some(toLowerCase(TokenT)), FALSE),
   ClientMessage("unsub", "trades", None, None, None, TRUE),
   ClientMessage("sub", "zig_trades", None, None, None, FALSE),
   ClientMessage("sub", "zig_trades", Some(JsonString(PoolOne)), None, None, FALSE),
   ClientMessage("unsub", "zig_trades", Some(JsonNumber(1)), None, None, FALSE),
   ClientMessage("unsub", "zig_trades", None, None, None, TRUE),
   ClientMessage("sub", "token_summary", None, None, Some(TokenT), FALSE),
   ClientMessage("unsub", "token_summary", None, None, Some(toLowerCase(TokenT)), TRUE),
   ClientMessage("sub", "candles", Some(JsonNumber(1)), None, None, FALSE),
   ClientMessage("unsub", "candles", Some(JsonString(PoolOne)), None, None, FALSE),
   ClientMessage("sub", "other", None, None, None, FALSE)}

\* a message of the rt:trades and rt:zig:trades channels
TradePayload(pool_id, pair_contract, offer_asset_denom, ask_asset_denom) ==
  [pool_id |-> pool_id, pair_contract |-> pair_contract,
   offer_asset_denom |-> offer_asset_denom, ask_asset_denom |-> ask_asset_denom,
   tf |-> None, unit |-> None, token_id |-> None]

\* the messages of the rt:trades and rt:zig:trades channels
TradePayloads ==
  {TradePayload(None, None, None, None),
   TradePayload(Some(JsonNumber(1)), None, Some(<<"u">>), Some(<<"v">>)),
   TradePayload(Some(JsonNumber(1)), Some(PairP), Some(TokenT), Some(<<"u">>))}

\* the messages of the rt:token:summary channel
SummaryPayloads ==
  {[pool_id |-> None, pair_contract |-> None, tf |-> None, unit |-> None,
    token_id |-> t] : t \in {None, Some(toLowerCase(TokenT)), Some(TokenT)}}

\* the messages of the rt:candles channel
CandlePayloads ==
  {[pool_id |-> Some(JsonString(PoolOne)), pair_contract |-> None, tf |-> f,
    unit |-> None, token_id |-> None] : f \in {None, Some(<<"5", "m">>)}}

WsInit == WsIdle

\* the registry as one value
registry == [rooms |-> rooms, socketRooms |-> socketRooms]

\* wss.on('connection')
Connection ==
  /\ \E sock \in Sockets \ DOMAIN readyState :
       readyState' = (sock :> "OPEN") @@ readyState
  /\ sends' = <<>>
  /\ UNCHANGED <<rooms, socketRooms>>

\* ws.on('message') of an open socket
OnMessage ==
  /\ \E sock \in DOMAIN readyState, msg \in ClientMessages :
       /\ readyState[sock] = "OPEN"
       /\ rooms' = onMessage(registry, sock, msg).rooms
       /\ socketRooms' = onMessage(registry, sock, msg).socketRooms
  /\ sends' = <<>>
  /\ UNCHANGED readyState

\* the closing handshake of a socket has begun; its close event has not
\* been emitted yet
Closing ==
  /\ \E sock \in DOMAIN readyState :
       /\ readyState[sock] = "OPEN"
       /\ readyState' = [readyState EXCEPT ![sock] = "CLOSING"]
  /\ sends' = <<>>
  /\ UNCHANGED <<rooms, socketRooms>>

\* ws.on('close') of one socket
closeOf(sock) ==
  /\ sock \in DOMAIN readyState
  /\ readyState[sock] \in {"OPEN", "CLOSING"}
  /\ readyState' = [readyState EXCEPT ![sock] = "CLOSED"]
  /\ rooms' = removeFromAllRooms(registry, sock).rooms
  /\ socketRooms' = removeFromAllRooms(registry, sock).socketRooms
  /\ sends' = <<>>

\* ws.on('close')
OnClose == \E sock \in Sockets : closeOf(sock)

\* ws.on('error') of one socket; the ws library stops reading the socket
\* and closes it
errorOf(sock) ==
  /\ sock \in DOMAIN readyState
  /\ readyState[sock] \in {"OPEN", "CLOSING"}
  /\ readyState' = [readyState EXCEPT ![sock] = "CLOSING"]
  /\ rooms' = removeFromAllRooms(registry, sock).rooms
  /\ socketRooms' = removeFromAllRooms(registry, sock).socketRooms
  /\ sends' = <<>>

\* ws.on('error')
OnError == \E sock \in Sockets : errorOf(sock)

\* onTrade
OnTrade ==
  /\ \E payload \in TradePayloads : sends' = fanOut(keysOf(tradeRooms(payload)))
  /\ UNCHANGED <<rooms, socketRooms, readyState>>

\* onZigTrade
OnZigTrade ==
  /\ \E payload \in TradePayloads : sends' = fanOut(keysOf(zigTradeRooms(payload)))
  /\ UNCHANGED <<rooms, socketRooms, readyState>>

\* onTokenSummary
OnTokenSummary ==
  /\ \E payload \in SummaryPayloads : sends' = fanOut(keysOf(tokenSummaryRooms(payload)))
  /\ UNCHANGED <<rooms, socketRooms, readyState>>

\* onCandle
OnCandle ==
  /\ \E payload \in CandlePayloads : sends' = fanOut(keysOf(candleBroadcastRooms(payload)))
  /\ UNCHANGED <<rooms, socketRooms, readyState>>

WsSpecInit == WsInit /\ PubIdle /\ OhlcvIdle /\ SwapIdle /\ ApiIdle

wsOthers == <<ohlcvVars, swapVars, apiVars, pubVars>>

WsSpecNext ==
  \/ Connection /\ UNCHANGED wsOthers
  \/ OnMessage /\ UNCHANGED wsOthers
  \/ Closing /\ UNCHANGED wsOthers
  \/ OnClose /\ UNCHANGED wsOthers
  \/ OnError /\ UNCHANGED wsOthers
  \/ OnTrade /\ UNCHANGED wsOthers
  \/ OnZigTrade /\ UNCHANGED wsOthers
  \/ OnTokenSummary /\ UNCHANGED wsOthers
  \/ OnCandle /\ UNCHANGED wsOthers

\* clients connecting, subscribing and leaving while Redis messages arrive
WsSpec == WsSpecInit /\ [][WsSpecNext]_vars

\* ------------------------------------------------------------------------
\* Properties of the OHLCV requests (Spec)
\* ------------------------------------------------------------------------
\* a response of the loop path
Done == pc = "done"

AdvDone == pc = "done" /\ ~q.isUzig

InLoop == pc \in {"loop", "done"}

Data == Val(resp).data

Meta == Val(resp).meta

\* bucket t has source data in [from, to)
HasData(t) == IsSome(bySec(t))

Raw(t) == Val(bySec(t))

\* the bucket timestamps start, start + step, ..., end
Visited == {start + k * stepSec : k \in 0..((end - start) \div stepSec)}

\* no visited bucket before t has source data
FirstData(t) == \A u \in Visited : u < t => ~HasData(u)

SeedUsed == q.fill = "prev" /\ IsSome(seedPrevClose)

\* from = T and to = T + N * step with N >= 1, a source bar in every bucket
\* of [T, T + N * step), fill prev or zero
AlignedNoGaps ==
  /\ AdvDone
  /\ q.fill \in {"prev", "zero"}
  /\ q.fromSec % stepSec = 0
  /\ q.toSec % stepSec = 0
  /\ q.fromSec < q.toSec
  /\ \A k \in 0..((q.toSec - q.fromSec) \div stepSec - 1) :
       HasData(q.fromSec + k * stepSec)

RequestedBuckets == (q.toSec - q.fromSec) \div stepSec

\* C1 as stated: for fill prev or zero, from = T, to = T + N * step and no
\* gaps in the source, ohlcvAdvanced returns exactly N bars whose ts_sec are
\* multiples of the step.
C1_ExactlyNBars ==
  AlignedNoGaps =>
    /\ Len(Data) = RequestedBuckets
    /\ \A i \in 1..Len(Data) : Data[i].ts_sec % stepSec = 0

\* C1 amended: under the same conditions ohlcvAdvanced returns exactly N + 1
\* bars: the N bars of the buckets T, ..., T + (N-1) * step and one fill bar
\* (volume 0, no trades) at T + N * step; every ts_sec is a multiple of the
\* step.
C1_NPlusOneBars ==
  AlignedNoGaps =>
    LET N == RequestedBuckets
    IN  /\ Len(Data) = N + 1
        /\ \A i \in 1..(N + 1) :
             /\ Data[i].ts_sec = q.fromSec + (i - 1) * stepSec
             /\ Data[i].ts_sec % stepSec = 0
        /\ \A i \in 1..N : Data[i].trades > 0
        /\ Data[N + 1].ts_sec = q.toSec
        /\ Data[N + 1].trades = 0
        /\ Data[N + 1].volume = RZero
        /\ Data[N + 1].close = (IF q.fill = "zero" THEN RZero ELSE Data[N].close)

\* two requested buckets, both with data, and a third bar in the answer
C1_Witness ==
  /\ AlignedNoGaps
  /\ RequestedBuckets = 2
  /\ Len(Data) = 3

\* C2 as stated: in the output of ohlcvAdvanced and ohlcvUzigFromUsdc, for
\* every fill policy, each emitted bar opens at the close of the emitted bar
\* before it.
C2_OpenIsPreviousClose ==
  Done => \A i \in 1..(Len(Data) - 1) : Data[i + 1].open = Data[i].close

\* C2 amended: each emitted bar opens at the close of the emitted bar
\* before it, except a zero-filled gap bar (fill 'zero', no source data),
\* which opens at 0 whatever the close before it.
C2_OpenIsPreviousCloseOrZeroFill ==
  Done =>
    \A i \in 1..(Len(Data) - 1) :
      \/ Data[i + 1].open = Data[i].close
      \/ /\ q.fill = "zero"
         /\ ~HasData(Data[i + 1].ts_sec)
         /\ Data[i + 1].open = RZero

\* under 'none', two bars of which the second has a raw open different from
\* the close of the first
C2_Witness ==
  /\ Done
  /\ q.fill = "none"
  /\ Len(Data) >= 2
  /\ Raw(Data[2].ts_sec).open # Raw(Data[1].ts_sec).close
  /\ Data[2].open = Data[1].close

\* the bar pushed for a bucket with data: close, volume and trades of the
\* row, high and low widened to the open
WidenedAround(b, r) ==
  /\ b.high = Max(r.high, b.open)
  /\ b.low = Min(r.low, b.open)
  /\ b.low <= b.open /\ b.open <= b.high
  /\ b.close = r.close

\* C3 as stated: for every fill policy, when a bar exists strictly before
\* the range start, the first bucket with source data is emitted with open
\* equal to that bar's close and high/low widened to contain it; every later
\* bucket with data opens at the close carried from the bucket processed
\* before it.
C3_SeedOpensFirstData ==
  InLoop =>
    \A i \in 1..Len(out) :
      LET b == out[i] IN
      HasData(b.ts_sec) =>
        /\ (IsSome(seedPrevClose) /\ FirstData(b.ts_sec))
             => (b.open = Val(seedPrevClose) /\ WidenedAround(b, Raw(b.ts_sec)))
        /\ ~FirstData(b.ts_sec)
             => (i > 1 /\ b.open = out[i - 1].close /\ WidenedAround(b, Raw(b.ts_sec)))

\* C3 amended: the seed is used under fill 'prev' only: then the first
\* bucket with source data opens at the close of the last bar strictly
\* before the range start.  Under 'none' and 'zero', and under 'prev'
\* without such a bar, the first bucket with data keeps its raw open when no
\* bar was emitted before it and opens at 0 after a zero-filled bucket.  For
\* every fill, a later bucket with data opens at the close of the bar
\* emitted before it, and high/low are widened to contain the open.
C3_SeedOpensFirstDataUnderPrev ==
  InLoop =>
    \A i \in 1..Len(out) :
      LET b == out[i] IN
      HasData(b.ts_sec) =>
        /\ WidenedAround(b, Raw(b.ts_sec))
        /\ (SeedUsed /\ FirstData(b.ts_sec)) => b.open = Val(seedPrevClose)
        /\ (~SeedUsed /\ FirstData(b.ts_sec))
             => /\ q.fill # "zero" => i = 1
                /\ b.open = (IF i = 1 THEN Raw(b.ts_sec).open ELSE 0)
        /\ ~FirstData(b.ts_sec) => (i > 1 /\ b.open = out[i - 1].close)

\* under 'prev' with a seed: the first bucket with data opens at the seed,
\* not at its raw open, and a later one at the carried close
C3_Witness ==
  /\ Done
  /\ SeedUsed
  /\ Len(out) = 3
  /\ HasData(out[1].ts_sec)
  /\ Raw(out[1].ts_sec).open # Val(seedPrevClose)
  /\ out[1].open = Val(seedPrevClose)
  /\ out[1].high > Raw(out[1].ts_sec).high
  /\ HasData(out[2].ts_sec)
  /\ Raw(out[2].ts_sec).open # out[1].close
  /\ out[2].open = out[1].close

IsZeroBar(b) ==
  /\ b.open = 0 /\ b.high = 0 /\ b.low = 0 /\ b.close = 0
  /\ b.volume = 0 /\ b.trades = 0

IsZeroData(b) ==
  /\ b.open = RZero /\ b.high = RZero /\ b.low = RZero /\ b.close = RZero
  /\ b.volume = RZero /\ b.trades = 0

\* three visited buckets of which only the middle one has source data
MiddleOnly ==
  /\ end = start + 2 * stepSec
  /\ ~HasData(start)
  /\ HasData(start + stepSec)
  /\ ~HasData(end)

\* C4: with fill 'zero' in ohlcvAdvanced, a bucket without source data is
\* emitted with open = high = low = close = 0, volume 0 and no trades, and
\* 0 becomes the previous close: the next bucket with data opens at 0, not
\* at the last real close.  Three buckets with data in the middle one only
\* give [zero bar, real bar, zero bar], the trailing bar with open = close = 0.
C4_ZeroFillResets ==
  (InLoop /\ ~q.isUzig /\ q.fill = "zero") =>
    /\ \A i \in 1..Len(out) :
         /\ ~HasData(out[i].ts_sec) => IsZeroBar(out[i])
         /\ (i > 1 /\ HasData(out[i].ts_sec) /\ ~HasData(out[i - 1].ts_sec))
              => out[i].open = 0
    /\ (pc = "loop" /\ out # <<>> /\ ~HasData(out[Len(out)].ts_sec))
         => prevClose = Some(0)
    /\ pc = "done" =>
         /\ \A i \in 1..Len(Data) : ~HasData(Data[i].ts_sec) => IsZeroData(Data[i])
         /\ MiddleOnly =>
              /\ Len(out) = 3
              /\ IsZeroBar(out[1])
              /\ out[2].ts_sec = start + stepSec
              /\ out[2].open = 0
              /\ out[2].close = Raw(start + stepSec).close
              /\ IsZeroBar(out[3])
              /\ IsZeroData(Data[1]) /\ IsZeroData(Data[3])

\* real, zero, real: the third bar opens at 0 although the first closed above
C4_Witness ==
  /\ AdvDone
  /\ q.fill = "zero"
  /\ Len(out) >= 3
  /\ HasData(out[1].ts_sec)
  /\ IsZeroBar(out[2])
  /\ HasData(out[3].ts_sec)
  /\ out[1].close > 0
  /\ out[3].open = 0

\* the three-bucket scenario of C4 answered
C4_ScenarioReached ==
  /\ AdvDone
  /\ q.fill = "zero"
  /\ MiddleOnly

Emitted == {out[i].ts_sec : i \in 1..Len(out)}

BarAt(t) == out[CHOOSE i \in 1..Len(out) : out[i].ts_sec = t]

\* the close of the latest visited bucket with data before t, the seed when
\* there is none
LastCloseBefore(t) ==
  LET earlier == {u \in Visited : u < t /\ HasData(u)}
  IN  IF earlier = {} THEN seedPrevClose
      ELSE Some(Raw(SetMax(earlier)).close)

\* C5: a bucket without source data is never emitted under 'none'; under
\* 'prev' it is emitted only when a previous close is known (the seed or the
\* close of an earlier bucket), as a flat bar at that close with volume 0
\* and no trades, leaving the previous close unchanged, and it is omitted
\* when none is known yet.  Under 'none' the output holds exactly the
\* buckets that have source data.
C5_GapBuckets ==
  Done =>
    /\ Len(out) = Cardinality(Emitted)
    /\ Emitted \subseteq Visited
    /\ \A t \in Visited : HasData(t) => t \in Emitted
    /\ q.fill = "none" => Emitted = {t \in Visited : HasData(t)}
    /\ q.fill = "prev" =>
         \A t \in Visited :
           ~HasData(t) =>
             LET known == LastCloseBefore(t)
             IN  /\ (t \in Emitted) <=> IsSome(known)
                 /\ IsSome(known) =>
                      /\ BarAt(t) = flatBar(t, Val(known))
                      /\ (t + stepSec \in Emitted) =>
                           BarAt(t + stepSec).open = Val(known)

\* under 'prev' without a seed: the leading gap is omitted, the gap after
\* the first bucket with data is emitted flat
C5_Witness ==
  /\ Done
  /\ q.fill = "prev"
  /\ ~IsSome(seedPrevClose)
  /\ MiddleOnly
  /\ Emitted = {start + stepSec, end}
  /\ BarAt(end) = flatBar(end, Raw(start + stepSec).close)

\* under 'none' a gap between two buckets with data is left out
C5_NoneWitness ==
  /\ Done
  /\ q.fill = "none"
  /\ IsSome(seedPrevClose)
  /\ Len(out) = 2
  /\ Cardinality(Visited) = 3

C7_MetaSeedIsSeedUsed ==
  AdvDone =>
    LET used == prevCloseInit(q.fill, seedPrevClose)
    IN  /\ IsSome(Meta.prevCloseSeed) <=> IsSome(used)
        /\ IsSome(used) =>
             Val(Meta.prevCloseSeed) =
               (IF isInverted(Meta.dominant, Meta.pairView)
                  THEN invert(Val(used)) ELSE RInt(Val(used)))

\* ------------------------------------------------------------------------
\* Properties of the swap simulation (SwapSpec)
\* ------------------------------------------------------------------------
\* the candidate of the last iteration was simulated
CandSimulated == spc # "idle" /\ IsSome(cand) /\ IsSome(Val(cand).sim)

CandSim == Val(Val(cand).sim)

CandPool == Val(cand).pool

ImpactTol == Rat(1, 100)

\* amounts approaching 0 from above, and the amounts of the requests
ProbeAmounts ==
  {Rat(1, 2000), Rat(1, 10), Rat(1, 2)} \cup {a \in Amounts : RLt(RZero, a)}

\* the native->token simulation of amount a on the pool of cand
SimAt(a) ==
  simulateXYK(TRUE, a, CandPool.zigReserve, CandPool.tokenReserve,
              Val(cand).fee)

ImpactAt(a) == SimAt(a).impact

NativeToTokenCase == CandSimulated /\ sq.fromIsZig /\ RLt(RZero, sq.amountIn)

ImpactIncreases ==
  \A a1 \in ProbeAmounts, a2 \in ProbeAmounts :
    RLt(a1, a2) => RLt(ImpactAt(a1), ImpactAt(a2))

\* C9 as stated: for a native->token simulation with fixed reserves and a
\* fee of the schedule, the impact tends to 0 as amountIn tends to 0 from
\* above (it falls below the tolerance for a small enough amount) and it
\* strictly increases with amountIn.
C9_ImpactTendsToZero ==
  NativeToTokenCase =>
    /\ \E a \in ProbeAmounts : RLt(ImpactAt(a), ImpactTol)
    /\ ImpactIncreases

\* fee / (1 - fee) + a / Rz
FeePlusSlippage(a) ==
  RAdd(RDiv(Val(cand).fee, RSub(ROne, Val(cand).fee)),
       RDiv(a, CandPool.zigReserve))

\* C9 amended: for amounts whose simulated out is at least the 1e-18 floor,
\* the impact of a native->token simulation is exactly
\* fee/(1-fee) + amountIn/Rz, so it tends to fee/(1-fee) (0 only for a zero
\* fee) as amountIn tends to 0 from above, and it strictly increases with
\* amountIn.
C9_ImpactIsFeePlusSlippage ==
  NativeToTokenCase =>
    /\ RLe(Tiny, CandSim.out) => CandSim.impact = FeePlusSlippage(sq.amountIn)
    /\ \A a \in ProbeAmounts :
         RLe(Tiny, SimAt(a).out) => ImpactAt(a) = FeePlusSlippage(a)
    /\ ImpactIncreases
    /\ Val(cand).fee = RZero =>
         \E a \in ProbeAmounts : RLt(ImpactAt(a), ImpactTol)

\* a native->token simulation on a 'concentrated' pool (fee 0.01)
C9_Witness ==
  /\ NativeToTokenCase
  /\ Val(cand).fee = Rat(1, 100)
  /\ \A a \in ProbeAmounts : RLe(Tiny, SimAt(a).out)
  /\ RLt(ImpactTol, CandSim.impact)

\* the score of candidate i, from its reserves
ScoreOf(i) ==
  LET p == pools[i]
  IN  IF RLt(RZero, p.zigReserve) /\ RLt(RZero, p.tokenReserve)
        THEN simulateXYK(sq.fromIsZig, sq.amountIn, p.zigReserve,
                         p.tokenReserve, pairFee(p.pairType)).out
        ELSE RZero

\* C10: pickBySimulation returns the candidate with the maximum simulated
\* out, the first encountered among equal maxima; a pool with a non-positive
\* or missing reserve (no pool_state row) scores 0 and is returned only when
\* every candidate scores 0, and then the first candidate is returned; the
\* result is null only for an empty candidate list.
C10_PickIsFirstMaximum ==
  spc = "done" =>
    /\ (best = None) <=> (Len(pools) = 0)
    /\ \A i \in 1..Len(pools) :
         (~IsSome(poolRows[i].pool_state)
            \/ ~RLt(RZero, pools[i].zigReserve)
            \/ ~RLt(RZero, pools[i].tokenReserve)) => ScoreOf(i) = RZero
    /\ Len(pools) > 0 =>
         LET b == Val(best)
             i == b.pool.poolId
         IN  /\ i \in 1..Len(pools)
             /\ b.pool = pools[i]
             /\ b.score = ScoreOf(i)
             /\ \A j \in 1..Len(pools) : RLe(ScoreOf(j), ScoreOf(i))
             /\ \A j \in 1..(i - 1) : RLt(ScoreOf(j), ScoreOf(i))
             /\ (~RLt(RZero, b.pool.zigReserve) \/ ~RLt(RZero, b.pool.tokenReserve))
                  => (i = 1 /\ \A j \in 1..Len(pools) : ScoreOf(j) = RZero)

\* two pools tie at a positive score and the first one is returned
C10_Witness ==
  /\ spc = "done"
  /\ Len(pools) = 2
  /\ RLt(RZero, ScoreOf(1))
  /\ ScoreOf(1) = ScoreOf(2)
  /\ Val(best).pool.poolId = 1

\* ------------------------------------------------------------------------
\* Properties of getBestPool and route (RouteSpec)
\* ------------------------------------------------------------------------
Returned == IsSome(ret)

\* the candidate pools of a token under the call's minimum tvl
Candidates(tokenId) ==
  loadUzigPoolsFiltered(db.rows[tokenId],
                        IF IsSome(call.minTvl) THEN Val(call.minTvl) ELSE 0)

HasReserves(p) == RGt(p.zigReserve, RZero) /\ RGt(p.tokenReserve, RZero)

\* no candidate pool of the token has positive reserves on both sides (in
\* particular when it has no candidate pool at all)
NoLiquidity(tokenId) ==
  \A i \in 1..Len(Candidates(tokenId)) : ~HasReserves(Candidates(tokenId)[i])

BestPoolCall == Returned /\ call.op = "getBestPool" /\ call.id \in TokenRefs

\* a route call whose two references resolve, at least one to a token
RouteCall ==
  /\ Returned /\ call.op = "route"
  /\ IsSome(call.from) /\ IsSome(call.to)
  /\ Val(call.from) \in TokenRefs \cup {"uzig"}
  /\ Val(call.to) \in TokenRefs \cup {"uzig"}
  /\ ~(Val(call.from) = "uzig" /\ Val(call.to) = "uzig")

\* the tokens whose pools a route call reads
RouteTokens ==
  {TokenIdOf(r) : r \in {Val(call.from), Val(call.to)} \cap TokenRefs}

\* C11 as stated: whenever no candidate pool has positive reserves on both
\* sides, or there is no candidate pool at all, getBestPool returns success
\* with data = null and route returns success with pairs = [] and
\* price_native = null; neither returns an error-shaped result.
C11_NoLiquidityIsNull ==
  /\ (BestPoolCall /\ NoLiquidity(TokenIdOf(call.id))) =>
       (Val(ret).success /\ Val(ret).data = None)
  /\ (RouteCall /\ \A t \in RouteTokens : NoLiquidity(t)) =>
       (Val(ret).success /\ Val(ret).data.pairs = <<>>
          /\ Val(ret).data.price_native = None)

\* a returned route from the native currency to a token with exactly one
\* candidate pool, which has positive reserves, and a positive amount
SinglePoolBuy ==
  /\ RouteCall
  /\ Val(call.from) = "uzig" /\ Val(call.to) \in TokenRefs
  /\ IsSome(call.amt) /\ RGt(Val(call.amt), RZero)
  /\ Len(Candidates(TokenIdOf(Val(call.to)))) = 1
  /\ HasReserves(Candidates(TokenIdOf(Val(call.to)))[1])

\* A(1-f)*Rt / (Rz + A(1-f))
ExpectedOut(A, f, Rz, Rt) ==
  RDiv(RMul(RMul(A, RSub(ROne, f)), Rt), RAdd(Rz, RMul(A, RSub(ROne, f))))

\* the pair block of the single pool: amount_in = A, amount_out by the
\* constant-product rule, price_native = A / amount_out, price_impact > 0
SinglePoolBlock ==
  SinglePoolBuy =>
    LET p == Candidates(TokenIdOf(Val(call.to)))[1]
        A == Val(call.amt)
        d == Val(ret).data
    IN  /\ Val(ret).success
        /\ Len(d.pairs) = 1
        /\ d.pairs[1].poolId = p.poolId
        /\ d.pairs[1].amount_in = Some(A)
        /\ d.pairs[1].amount_out =
             Some(ExpectedOut(A, pairFee(p.pairType), p.zigReserve, p.tokenReserve))
        /\ d.price_native = Some(RDiv(A, Val(d.pairs[1].amount_out)))
        /\ RGt(Val(d.pairs[1].price_impact), RZero)

\* the documented scenario: reserves 10000 / 50000, default fee, amount 500
ScenarioCall ==
  /\ SinglePoolBuy
  /\ db = ScenarioDb
  /\ Val(call.to) = "a"
  /\ Val(call.amt) = RInt(Scenario.amt)
  /\ call.minTvl = None

ScenarioOut == Val(Val(ret).data.pairs[1].amount_out)

FeeCall == Returned /\ call.op = "pairFee"

XykStr == <<"x", "y", "k">>

ConcentratedStr == <<"c", "o", "n", "c", "e", "n", "t", "r", "a", "t", "e", "d">>

\* t[i..j] is xyk, a separator _ or -, and a maximal run of digits
XykRunAt(t, i, j) ==
  /\ 1 <= i /\ i + 4 <= j /\ j <= Len(t)
  /\ SubSeq(t, i, i + 2) = XykStr
  /\ t[i + 3] \in {"_", "-"}
  /\ \A k \in (i + 4)..j : t[k] \in Digits
  /\ (j = Len(t) \/ t[j + 1] \notin Digits)

XykRuns(t) == {r \in (1..Len(t)) \X (1..Len(t)) : XykRunAt(t, r[1], r[2])}

\* n basis points of the run r of t
RunFee(t, r) == Rat(NumberOfDigits(SubSeq(t, r[1] + 4, r[2])), 10000)

\* C12 as stated: pairFee is 0.0001 for exactly 'xyk', 0.01 for exactly
\* 'concentrated', n/10000 for a value of the form xyk_<n> or xyk-<n>, and
\* 0.003 for every other value, null included.
C12_FeeByExactType ==
  FeeCall =>
    LET v == call.pairType
    IN  ret = Some(IF v = XykStr THEN Rat(1, 10000)
                   ELSE IF v = ConcentratedStr THEN Rat(1, 100)
                   ELSE IF <<1, Len(v)>> \in XykRuns(v) THEN RunFee(v, <<1, Len(v)>>)
                   ELSE Rat(3, 1000))

\* C12, amended: pairFee lower-cases the value; it is 0.0001 when the
\* lower-cased value is 'xyk', 0.01 when it is 'concentrated', otherwise
\* n/10000 when it contains xyk_<n> or xyk-<n> anywhere (n the digits of
\* the first occurrence), and 0.003 for every other value, null, the empty
\* string and 'unknown' included.
C12_FeeByLowerCasedType ==
  FeeCall =>
    LET t == toLowerCase(call.pairType)
        first == CHOOSE r \in XykRuns(t) : \A o \in XykRuns(t) : r[1] <= o[1]
    IN  ret = Some(IF t = XykStr THEN Rat(1, 10000)
                   ELSE IF t = ConcentratedStr THEN Rat(1, 100)
                   ELSE IF XykRuns(t) # {} THEN RunFee(t, first)
                   ELSE Rat(3, 1000))

\* pairFee('xyk_50') has returned 0.005
C12_Witness ==
  /\ FeeCall
  /\ call.pairType = <<"x", "y", "k", "_", "5", "0">>
  /\ ret = Some(Rat(5, 1000))

UzigCall == Returned /\ call.op = "isUzigToken" /\ call.tok.kind = "token"

IsUzigName(s) == IsSome(s) /\ toLowerCase(Val(s)) \in UzigNames

\* C15 as stated: isUzigToken(token) is true exactly when the token's denom
\* or its symbol, lower-cased, is 'uzig' or 'zig'.
C15_DenomOrSymbolIsUzig ==
  UzigCall => (Val(ret) <=> (IsUzigName(call.tok.denom) \/ IsUzigName(call.tok.symbol)))

\* C15, amended: isUzigToken(token) is true exactly when the token's denom,
\* lower-cased, is 'uzig' or 'zig', or the denom is null or empty and the
\* symbol, lower-cased, is: the symbol is read only when there is no denom.
C15_DenomElseSymbolIsUzig ==
  UzigCall =>
    (Val(ret) <=>
       \/ IsUzigName(call.tok.denom)
       \/ /\ call.tok.denom \in {None, Some(<<>>)}
          /\ IsUzigName(call.tok.symbol))

\* a token without denom and with symbol 'ZIG' has been found native
C15_Witness ==
  /\ UzigCall
  /\ call.tok.denom = None
  /\ call.tok.symbol = Some(<<"Z", "I", "G">>)
  /\ Val(ret)

ShapeCall == Returned /\ call.op = "shapeRow"

\* the native-currency leg of the trade of the call: the uzig offer amount,
\* else the uzig ask amount, at exponent 6; null when the trade has none
NativeLeg ==
  LET r == call.row
  IN  IF r.offer_asset_denom = "uzig" /\ IsSome(r.offer_amount_base)
        THEN Some(Rat(Val(r.offer_amount_base), 1000000))
      ELSE IF r.ask_asset_denom = "uzig" /\ IsSome(r.ask_amount_base)
        THEN Some(Rat(Val(r.ask_amount_base), 1000000))
      ELSE None

WorthBasis == IF IsSome(NativeLeg) THEN NativeLeg ELSE Val(ret).valueNative

Worth ==
  IF call.unit = "usd" THEN RMul(Val(WorthBasis), Val(ret).zig_usd_at_trade)
  ELSE Val(WorthBasis)

\* C18: the class of a shaped trade comes from its worth basis, the native
\* leg amount when the trade touches the native currency and valueNative
\* otherwise, times the trade's fx for usd: below 1000 shrimp, from 1000 to
\* 10000 shark, above 10000 whale; the class is null exactly when there is
\* no worth basis.
C18_ClassFromWorth ==
  ShapeCall =>
    /\ (Val(ret).class = None) <=> (WorthBasis = None)
    /\ IsSome(WorthBasis) =>
         Val(ret).class =
           Some(IF RLt(Worth, RInt(1000)) THEN "shrimp"
                ELSE IF RGt(Worth, RInt(10000)) THEN "whale"
                ELSE "shark")

\* a trade worth exactly 10000 usd on its native leg has been classed shark
C18_Witness ==
  /\ ShapeCall
  /\ call.unit = "usd"
  /\ IsSome(NativeLeg)
  /\ Worth = RInt(10000)
  /\ Val(ret).class = Some("shark")

AlignCall == Returned /\ call.op = "alignedMeta"

\* C20 as stated, for the meta of an OHLCV response: for every requested
\* timeframe the aligned bounds are finite numbers (neither NaN nor
\* Infinity), the division by the step being guarded when the step can be
\* zero.
C20_AlignedBoundsAreFinite ==
  AlignCall =>
    /\ Val(ret).alignedFromSec.finite
    /\ Val(ret).alignedToSecExclusive.finite

\* ------------------------------------------------------------------------
\* Properties of the token lookups (TokenSpec)
\* ------------------------------------------------------------------------
ResolveCall == Returned /\ call.op = "resolveTokenId"

\* lower(qs) occurs in lower(s)
ContainsLower(s, qs) ==
  /\ IsSome(s)
  /\ \E i \in 1..(Len(Val(s)) + 1), j \in 0..Len(Val(s)) :
       SubSeq(toLowerCase(Val(s)), i, j) = toLowerCase(qs)

\* the precedence of the stated rule: denom, symbol, name, numeric id
StatedRank(t, qs) ==
  IF toLowerCase(t.denom) = toLowerCase(qs) THEN 0
  ELSE IF LowerEq(t.symbol, qs) THEN 1
  ELSE IF ContainsLower(t.name, qs) THEN 2
  ELSE IF IdText(t.token_id) = qs THEN 3
  ELSE 4

StatedResolve(tokens, qs) ==
  LET rank(t) == StatedRank(t, qs)
  IN  FirstByKey({t \in tokens : StatedRank(t, qs) < 4}, rank)

\* the lookup of the service of the call
ResolveIn(svc, tokens, qs) ==
  IF svc = "tokens" THEN resolveTokenId(tokens, qs)
  ELSE resolveTokenIdShared(tokens, qs)

\* C14 as stated: in every service resolveTokenId returns the matching token
\* of highest precedence (denom, symbol, both case-insensitive, then name by
\* case-insensitive substring, then numeric id), ties broken by the highest
\* token_id, null when nothing matches; 'uzig' and 'ZIG' resolve to the same
\* token id.
C14_ResolveByPrecedence ==
  ResolveCall =>
    /\ Val(ret) = StatedResolve(db.tokens, call.q)
    /\ ResolveIn(call.svc, db.tokens, <<"u", "z", "i", "g">>)
         = ResolveIn(call.svc, db.tokens, <<"Z", "I", "G">>)

SideCall ==
  /\ Returned /\ call.op = "resolveDominantSide"
  /\ call.dominant \in {Some(BaseStr), Some(QuoteStr), Some(AutoStr)}

\* C16: resolveDominantSide returns the requested side when it is 'base' or
\* 'quote'; for 'auto' it returns 'base' if some pool has the token as base
\* with the native currency as quote, otherwise 'quote' if some pool has the
\* token as quote, otherwise 'base' (in TokensService and in TradesService).
C16_DominantSide ==
  SideCall =>
    Val(ret) =
      IF call.dominant # Some(AutoStr) THEN Val(call.dominant)
      ELSE IF \E p \in db.pools : p.base_token_id = call.tokenId /\ p.quote_token_id = 1
        THEN BaseStr
      ELSE IF \E p \in db.pools : p.quote_token_id = call.tokenId THEN QuoteStr
      ELSE BaseStr

\* 'auto' has returned 'quote' for a token that is the base of a pool, but
\* of none quoted in the native currency
C16_Witness ==
  /\ SideCall
  /\ call.dominant = Some(AutoStr)
  /\ \E p \in db.pools : p.base_token_id = call.tokenId
  /\ Val(ret) = QuoteStr

\* ------------------------------------------------------------------------
\* Properties of the unit conversion (SwapSpec)
\* ------------------------------------------------------------------------
\* the exponent of the stated rule: the token's own, 6 when it is null
ExponentOr6(e) == IF IsSome(e) THEN Val(e) ELSE 6

\* C17 as stated, for the reserve conversion of loadUzigPoolsForToken: each
\* reserve of a loaded pool is the stored base-unit reserve divided by
\* 10^exponent, with the token's own exponent when it is known and 6 when it
\* is null.
C17_ReservesUseExponentOr6 ==
  \A i \in 1..Len(pools) :
    IsSome(poolRows[i].pool_state) =>
      /\ pools[i].tokenReserve =
           Rat(Val(poolRows[i].pool_state).reserve_base_base,
               Pow10(ExponentOr6(poolRows[i].base_exp)))
      /\ pools[i].zigReserve =
           Rat(Val(poolRows[i].pool_state).reserve_quote_base,
               Pow10(ExponentOr6(poolRows[i].quote_exp)))

\* ------------------------------------------------------------------------
\* Properties of the token summary (SummarySpec)
\* ------------------------------------------------------------------------
\* getOne has returned for a resolved token and there is no exchange rate
SummaryNoRate ==
  /\ Returned /\ call.op = "getOne" /\ call.id \in TokenRefs
  /\ db.zig_usd = None

\* C19 as stated: without an exchange rate getOne still returns success, the
\* native fields are populated as usual (the stored price of the selected
\* pool, the supplies times that price), and each USD field derived from the
\* exchange rate (price.usd, mcapDetail.usd, fdvDetail.usd) is null.
C19_UsdNullWithoutRate ==
  SummaryNoRate =>
    LET d == Val(ret).data
    IN  /\ Val(ret).success
        /\ Len(db.rows[TokenIdOf(call.id)]) > 0 =>
             d.price.native = Some(RInt(StoredPrice))
        /\ IsSome(d.price.native) => d.price.usd = None
        /\ IsSome(d.mcapDetail.native) => d.mcapDetail.usd = None
        /\ IsSome(d.fdvDetail.native) => d.fdvDetail.usd = None

\* ------------------------------------------------------------------------
\* Properties of the token summary publisher (PublisherSpec)
\* ------------------------------------------------------------------------
\* positions of the messages published for token id t
PublishedFor(t) == {i \in 1..Len(published) : published[i].token_id = t}

\* C21: two token_summary messages for the same token id are never published
\* less than MIN_INTERVAL_MS apart, whatever the arrival times of the dirty
\* events and the durations of getOne
C21_PublishesAreIntervalApart ==
  \A t \in TokenRefs : \A i, j \in PublishedFor(t) :
    i < j => published[j].ts - published[i].ts >= MIN_INTERVAL_MS

\* C23: for one token id the summaries are published in the order in which
\* their dirty events were accepted
C23_PublishedInAcceptedOrder ==
  \A t \in TokenRefs : \A i, j \in PublishedFor(t) :
    i < j => published[i].data.startedAt <= published[j].data.startedAt

\* token id t has received a dirty event and a summary whose computation
\* started at or after the last of them has been published
Covered(t) ==
  t \in DOMAIN lastDirty =>
    \E i \in PublishedFor(t) : published[i].data.startedAt >= lastDirty[t]

\* C24: when the store responds, a summary whose computation started at or
\* after the last dirty event of a token that resolves is eventually
\* published
C24_LastDirtyIsCovered == <>[](faulted \/ \A t \in TokenRefs : Covered(t))

\* ------------------------------------------------------------------------
\* Properties of the response cache (CacheSpec)
\* ------------------------------------------------------------------------
\* a request was a miss and its response was stored
Stored == Returned /\ call.op = "intercept" /\ IsSome(Val(ret).setEx)

\* the value of CACHE_TTL_MAX, 300 when it is not set
ConfiguredMax == EnvNumber(db.env.CACHE_TTL_MAX, CacheDefaults.CACHE_TTL_MAX)

\* C22: the expiry passed to Redis when a response is stored never exceeds
\* CACHE_TTL_MAX seconds
C22_ExpiryWithinMax == Stored => Val(Val(ret).setEx) <= ConfiguredMax

\* ------------------------------------------------------------------------
\* Properties of the returned bars (Spec)
\* ------------------------------------------------------------------------
\* low <= open <= high and low <= close <= high
Ordered(b) ==
  /\ RLe(b.low, b.open) /\ RLe(b.open, b.high)
  /\ RLe(b.low, b.close) /\ RLe(b.close, b.high)

\* C25: every bar returned by ohlcvAdvanced and ohlcvUzigFromUsdc has
\* low <= open <= high and low <= close <= high, under every fill policy and
\* also when the bars are inverted, the stored bars being ordered and
\* positive
C25_ReturnedBarsOrdered ==
  Done /\ Val(resp).success => \A i \in 1..Len(Data) : Ordered(Data[i])

\* ------------------------------------------------------------------------
\* Properties of the WebSocket rooms and the fan-out (WsSpec)
\* ------------------------------------------------------------------------
\* rooms and socketRooms hold the same memberships and no empty set
RegistryConsistent ==
  /\ \A k \in DOMAIN rooms : \A sock \in rooms[k] :
       sock \in DOMAIN socketRooms /\ k \in socketRooms[sock]
  /\ \A sock \in DOMAIN socketRooms : \A k \in socketRooms[sock] :
       k \in DOMAIN rooms /\ sock \in rooms[k]
  /\ \A k \in DOMAIN rooms : rooms[k] # {}
  /\ \A sock \in DOMAIN socketRooms : socketRooms[sock] # {}

InNoRoom(sock) ==
  /\ sock \notin DOMAIN socketRooms
  /\ \A k \in DOMAIN rooms : sock \notin rooms[k]

C27_SentAtMostOnce == \A sock \in DOMAIN sends : Len(sends[sock]) <= 1

\* ------------------------------------------------------------------------
\* Properties of the fee and of the timeframe (UtilSpec)
\* ------------------------------------------------------------------------
\* C28: pairFee returns a fee f with 0 <= f < 1 for every pair_type (so
\* that the fee-deducted input amountIn * (1 - f) is never negative).
C28_FeeIsAFraction ==
  call.op = "pairFee" /\ Returned => RLe(RZero, Val(ret)) /\ RLt(Val(ret), ROne)

\* C29: tfToSec returns a strictly positive number of seconds for every
\* timeframe requested, so that the step of the gap-fill loop and the
\* divisor of the alignment are never 0.
C29_StepIsPositive == AlignCall => Val(ret).stepSec > 0

\* ------------------------------------------------------------------------
\* Properties of the dominant side for any requested value (TokenSpec)
\* ------------------------------------------------------------------------
\* C30: for every requested value (absent, upper-case and unrecognized ones
\* included) TokensService.resolveDominantSide returns 'base' or 'quote',
\* and the same side as TradesService.resolveDominantSide.
C30_SideIsBaseOrQuote ==
  Returned /\ call.op = "resolveDominantSide" /\ call.svc = "tokens" =>
    /\ Val(ret) \in {BaseStr, QuoteStr}
    /\ Val(ret) = resolveDominantSideTrades(db.pools, call.tokenId, call.dominant)

====
